---- MODULE Spec2Model ----
(***************************************************************************)
(* gateway-cli: the configuration resolution engine (src/src/config.ts),   *)
(* the process entry point (src/main.ts) and the configuration wizard      *)
(* (src/src/commands/init.ts) as one state machine.                        *)
(*                                                                         *)
(* JavaScript values are tagged records, so that a string, an array, an    *)
(* object, null and undefined stay distinct the way they are at run time.  *)
(* A string is the sequence of its characters: split(), the length check   *)
(* of the schema and the YAML scalar rules all work on characters.         *)
(***************************************************************************)
EXTENDS Integers, Sequences, FiniteSets, TLC

(***************************************************************************)
(* Bounds of the model.                                                    *)
(***************************************************************************)
\* How often a repeatable flag is repeated on the command line.
MaxRepeat == 2

\* The most answers the wizard rejects for one field before the user gives
\* an answer it accepts.
MaxRejected == 2

\* The most runs of the process in one working directory.
MaxRuns == 2

(***************************************************************************)
(* JavaScript values.                                                      *)
(***************************************************************************)
Undefined == [t |-> "undefined"]
Null == [t |-> "null"]
Bool(b) == [t |-> "boolean", b |-> b]
Num(d) == [t |-> "number", d |-> d]
Str(s) == [t |-> "string", s |-> s]
Arr(a) == [t |-> "array", a |-> a]
Obj(o) == [t |-> "object", o |-> o]

\* The empty object literal {}.
EmptyObj == Obj(<<>>)

\* JavaScript truthiness of the values the extractors test with if (...).
Truthy(v) ==
  CASE v.t = "undefined" -> FALSE
    [] v.t = "null" -> FALSE
    [] v.t = "boolean" -> v.b
    [] v.t = "string" -> Len(v.s) > 0
    [] OTHER -> TRUE

\* record[key] of a JavaScript object: undefined when the key is not an own key.
Get(v, key) == IF key \in DOMAIN v.o THEN v.o[key] ELSE Undefined

\* An object holding exactly the keys of `keys`, valued by the function val.
ObjOf(keys, val) == Obj([k \in keys |-> val[k]])

(***************************************************************************)
(* Strings.                                                                *)
(***************************************************************************)
RECURSIVE Repeat(_, _)
\* 'a'.repeat(n)
Repeat(c, n) == IF n = 0 THEN <<>> ELSE <<c>> \o Repeat(c, n - 1)

\* The index of the first sep in s, 0 when there is none.
IndexOf(s, sep) ==
  IF \E i \in 1..Len(s) : s[i] = sep
  THEN CHOOSE i \in 1..Len(s) : s[i] = sep /\ \A j \in 1..(i - 1) : s[j] # sep
  ELSE 0

RECURSIVE Split(_, _)
\* String.prototype.split(sep) for a one-character separator: every
\* separator ends a piece, so 'a,,b' gives three pieces and ',' gives two.
Split(s, sep) ==
  LET i == IndexOf(s, sep)
  IN IF i = 0 THEN <<Str(s)>>
     ELSE <<Str(SubSeq(s, 1, i - 1))>> \o Split(SubSeq(s, i + 1, Len(s)), sep)

Digits == {"0", "1", "2", "3", "4", "5", "6", "7", "8", "9"}

\* A decimal integer literal, the only number shape the model's alphabet has.
IsNumber(s) == Len(s) > 0 /\ \A i \in 1..Len(s) : s[i] \in Digits

s_true == <<"t", "r", "u", "e">>
s_false == <<"f", "a", "l", "s", "e">>
s_null == <<"n", "u", "l", "l">>

(***************************************************************************)
(* The schema (configSchema, serverInfoSchema).                            *)
(***************************************************************************)
\* z.string().min(64) on privateKey
PrivateKeyMinLength == 64

\* EncryptionMode of @contextvm/sdk; its values are the lower-case strings.
EncryptionMode ==
  [OPTIONAL |-> <<"o", "p", "t", "i", "o", "n", "a", "l">>,
   REQUIRED |-> <<"r", "e", "q", "u", "i", "r", "e", "d">>,
   DISABLED |-> <<"d", "i", "s", "a", "b", "l", "e", "d">>]

EncryptionModes ==
  {EncryptionMode.OPTIONAL, EncryptionMode.REQUIRED, EncryptionMode.DISABLED}

\* The keys of configSchema.shape, in declaration order.
ShapeKeys ==
  <<"server", "privateKey", "relays", "public", "serverInfo",
    "allowedPublicKeys", "encryptionMode">>

\* The keys of serverInfoSchema.shape, in declaration order.
ServerInfoKeys == <<"name", "picture", "website">>

Range(f) == {f[i] : i \in DOMAIN f}

\* z.string()
IsString(v) == v.t = "string"

\* z.array(z.string())
IsStringArray(v) == v.t = "array" /\ \A i \in 1..Len(v.a) : IsString(v.a[i])

\* serverInfoSchema: an object whose name, picture and website are each
\* undefined or a string.
serverInfoSchemaOk(v) ==
  /\ v.t = "object"
  /\ \A k \in Range(ServerInfoKeys) : Get(v, k) = Undefined \/ IsString(Get(v, k))

\* serverInfoSchema's output: the known keys that are set (unknown keys are
\* stripped).
serverInfoSchemaParse(v) ==
  ObjOf({k \in Range(ServerInfoKeys) : Get(v, k) # Undefined}, v.o)

\* Variant of the field schemas without the .min(...) constraints of
\* server, privateKey and relays.
FieldOkWithoutMin(key, v) ==
  CASE key \in {"server", "relays"} -> IsStringArray(v)
    [] key = "privateKey" -> IsString(v)
    [] key = "public" -> v = Undefined \/ v.t = "boolean"
    [] key = "serverInfo" -> v = Undefined \/ serverInfoSchemaOk(v)
    [] key = "allowedPublicKeys" -> v = Undefined \/ IsStringArray(v)
    [] key = "encryptionMode" ->
         v = Undefined \/ (IsString(v) /\ v.s \in EncryptionModes)

\* The schema of one field of configSchema, as safeParse(value).success.
FieldOk(key, v) ==
  CASE key = "server" -> IsStringArray(v) /\ Len(v.a) >= 1
    [] key = "privateKey" -> IsString(v) /\ Len(v.s) >= PrivateKeyMinLength
    [] key = "relays" -> IsStringArray(v) /\ Len(v.a) >= 1
    [] key = "public" -> v = Undefined \/ v.t = "boolean"
    [] key = "serverInfo" -> v = Undefined \/ serverInfoSchemaOk(v)
    [] key = "allowedPublicKeys" -> v = Undefined \/ IsStringArray(v)
    [] key = "encryptionMode" ->
         v = Undefined \/ (IsString(v) /\ v.s \in EncryptionModes)

\* The fields of a candidate object that configSchema rejects (the paths of
\* the ZodError's issues).
configSchemaIssues(v) == {k \in Range(ShapeKeys) : ~FieldOk(k, Get(v, k))}

\* Variant of the parsed value without .default(...): an accepted field is
\* returned as it was given.
FieldDataWithoutDefaults(key, v) ==
  IF key = "serverInfo" /\ v # Undefined THEN serverInfoSchemaParse(v) ELSE v

\* The value safeParse returns for one accepted field: the defaults of
\* public and encryptionMode, serverInfo stripped to its known keys.
FieldData(key, v) ==
  CASE key = "public" /\ v = Undefined -> Bool(FALSE)
    [] key = "encryptionMode" /\ v = Undefined -> Str(EncryptionMode.OPTIONAL)
    [] key = "serverInfo" /\ v # Undefined -> serverInfoSchemaParse(v)
    [] OTHER -> v

\* configSchema.parse(v) for a candidate without issues: the Config value.
configSchemaParse(v) ==
  LET out == [k \in Range(ShapeKeys) |-> FieldData(k, Get(v, k))]
  IN ObjOf({k \in Range(ShapeKeys) : out[k] # Undefined}, out)

(***************************************************************************)
(* deepMerge of @std/collections, as loadConfig calls it.                  *)
(***************************************************************************)
\* isNonNullObject
IsNonNullObject(v) == v.t \in {"object", "array"}

\* isMergeable: a plain object (its prototype is Object.prototype).
IsMergeable(v) == v.t = "object"

\* Variant of mergeObjects that overrides like an object spread: the right
\* value replaces the left one whole.
mergeObjectsShallow(left, right, arrays) == right

RECURSIVE deepMerge(_, _, _)
\* mergeObjects(left, right, options): plain objects merge key by key; two
\* arrays are concatenated under arrays: 'merge' and replaced by the right
\* one under arrays: 'replace'; anything else is replaced by the right value.
mergeObjects(left, right, arrays) ==
  IF IsMergeable(left) /\ IsMergeable(right)
  THEN deepMerge(left, right, arrays)
  ELSE IF left.t = "array" /\ right.t = "array" /\ arrays = "merge"
       THEN Arr(left.a \o right.a)
       ELSE right

\* deepMerge(record, other, { arrays }): the keys of both; a key other does
\* not own keeps record's value, two non-null objects are merged, and
\* otherwise other's value overrides.
deepMerge(record, other, arrays) ==
  Obj([key \in DOMAIN record.o \cup DOMAIN other.o |->
        IF key \notin DOMAIN other.o THEN record.o[key]
        ELSE IF IsNonNullObject(Get(record, key)) /\ IsNonNullObject(other.o[key])
             THEN mergeObjects(record.o[key], other.o[key], arrays)
             ELSE other.o[key]])

(***************************************************************************)
(* The environment extractor (loadConfigFromEnv).                          *)
(***************************************************************************)
ENV_VARS ==
  [server |-> "GW_SERVER",
   privateKey |-> "GW_PRIVATE_KEY",
   relays |-> "GW_RELAYS",
   public |-> "GW_PUBLIC",
   serverInfoName |-> "GW_SERVER_INFO_NAME",
   serverInfoPicture |-> "GW_SERVER_INFO_PICTURE",
   serverInfoWebsite |-> "GW_SERVER_INFO_WEBSITE",
   allowedPublicKeys |-> "GW_ALLOWED_PUBLIC_KEYS",
   encryptionMode |-> "GW_ENCRYPTION_MODE"]

\* Deno.env.get(name) on the environment e (a function from the names of
\* the set variables to their values).
EnvGet(e, name) == IF name \in DOMAIN e THEN Str(e[name]) ELSE Undefined

\* The serverInfo object loadConfigFromEnv collects: a sub-field is set when
\* its variable is set and not empty.
EnvServerInfo(e) ==
  LET val == [name |-> EnvGet(e, ENV_VARS.serverInfoName),
              picture |-> EnvGet(e, ENV_VARS.serverInfoPicture),
              website |-> EnvGet(e, ENV_VARS.serverInfoWebsite)]
  IN ObjOf({k \in Range(ServerInfoKeys) : Truthy(val[k])}, val)

\* Variant of config.public that takes every non-empty GW_PUBLIC for true.
EnvPublicIfSet(e) ==
  IF Truthy(EnvGet(e, ENV_VARS.public)) THEN Bool(TRUE) ELSE Undefined

\* config.public of loadConfigFromEnv: set when GW_PUBLIC is truthy, to the
\* outcome of the comparison with 'true'.
EnvPublic(e) ==
  IF Truthy(EnvGet(e, ENV_VARS.public))
  THEN Bool(e[ENV_VARS.public] = s_true) ELSE Undefined

\* loadConfigFromEnv(): a field is set when its variable is truthy; server
\* is split on ' ', the lists on ',', public is the comparison with 'true',
\* serverInfo is set when it has a key.
loadConfigFromEnv(e) ==
  LET val ==
        [server |-> IF Truthy(EnvGet(e, ENV_VARS.server))
                    THEN Arr(Split(e[ENV_VARS.server], " ")) ELSE Undefined,
         privateKey |-> IF Truthy(EnvGet(e, ENV_VARS.privateKey))
                        THEN EnvGet(e, ENV_VARS.privateKey) ELSE Undefined,
         relays |-> IF Truthy(EnvGet(e, ENV_VARS.relays))
                    THEN Arr(Split(e[ENV_VARS.relays], ",")) ELSE Undefined,
         public |-> EnvPublic(e),
         serverInfo |-> IF DOMAIN EnvServerInfo(e).o # {}
                        THEN EnvServerInfo(e) ELSE Undefined,
         allowedPublicKeys |->
           IF Truthy(EnvGet(e, ENV_VARS.allowedPublicKeys))
           THEN Arr(Split(e[ENV_VARS.allowedPublicKeys], ",")) ELSE Undefined,
         encryptionMode |-> IF Truthy(EnvGet(e, ENV_VARS.encryptionMode))
                            THEN EnvGet(e, ENV_VARS.encryptionMode) ELSE Undefined]
  IN ObjOf({k \in Range(ShapeKeys) : val[k] # Undefined}, val)

(***************************************************************************)
(* YAML (js-yaml load and dump) and the file extractor.                    *)
(*                                                                         *)
(* A document is a tree of nodes: a scalar with its style and text, a      *)
(* block sequence, a block mapping; the text of an empty file is the empty *)
(* document, and text js-yaml cannot parse is the malformed document.      *)
(***************************************************************************)
YScalar(style, text) == [y |-> "scalar", style |-> style, text |-> text]
YSeq(items) == [y |-> "seq", items |-> items]
YMap(m) == [y |-> "map", m |-> m]
YEmpty == [y |-> "empty"]
YMalformed == [y |-> "malformed"]

YAML_CONFIG_PATH == "contextgw.config.yml"

\* The value of a plain (unquoted) scalar under js-yaml's default schema:
\* null, a boolean, a number, and a string otherwise.
ResolvePlain(text) ==
  IF text \in {<<>>, <<"~">>, s_null} THEN Null
  ELSE IF text \in {s_true, <<"T", "R", "U", "E">>, <<"T", "r", "u", "e">>}
       THEN Bool(TRUE)
  ELSE IF text \in {s_false, <<"F", "A", "L", "S", "E">>,
                    <<"F", "a", "l", "s", "e">>}
       THEN Bool(FALSE)
  ELSE IF IsNumber(text) THEN Num(text)
  ELSE Str(text)

RECURSIVE parseYaml(_)
\* load(text): the value of a document; undefined for the empty document.
parseYaml(node) ==
  CASE node.y = "empty" -> Undefined
    [] node.y = "scalar" ->
         IF node.style = "plain" THEN ResolvePlain(node.text) ELSE Str(node.text)
    [] node.y = "seq" ->
         Arr([i \in 1..Len(node.items) |-> parseYaml(node.items[i])])
    [] node.y = "map" -> Obj([k \in DOMAIN node.m |-> parseYaml(node.m[k])])

\* Characters that cannot start a plain scalar.
YamlIndicators ==
  {"-", "?", ":", ",", "[", "]", "{", "}", "#", "&", "*", "!", "|", "=", ">",
   "%", "@", " "}

\* Whether dump may write the string plain: it is not empty, does not start
\* with an indicator or end with a space, holds no colon-space and no space-hash, and as
\* plain text it would be read back as a string.
PlainSafe(s) ==
  /\ Len(s) > 0
  /\ s[1] \notin YamlIndicators
  /\ s[Len(s)] # " "
  /\ \A i \in 1..(Len(s) - 1) :
       ~(s[i] = ":" /\ s[i + 1] = " ") /\ ~(s[i] = " " /\ s[i + 1] = "#")
  /\ s[Len(s)] # ":"
  /\ ResolvePlain(s).t = "string"

\* Variant of the style choice that never quotes.
ScalarStyleNeverQuoted(s) == "plain"

\* The style dump chooses for a string.
ScalarStyle(s) == IF PlainSafe(s) THEN "plain" ELSE "quoted"

RECURSIVE dump(_)
\* dump(value): the document load reads back.
dump(v) ==
  CASE v.t = "object" -> YMap([k \in DOMAIN v.o |-> dump(v.o[k])])
    [] v.t = "array" -> YSeq([i \in 1..Len(v.a) |-> dump(v.a[i])])
    [] v.t = "string" -> YScalar(ScalarStyle(v.s), v.s)
    [] v.t = "boolean" -> YScalar("plain", IF v.b THEN s_true ELSE s_false)
    [] v.t = "number" -> YScalar("plain", v.d)
    [] v.t = "null" -> YScalar("plain", s_null)

\* The state of contextgw.config.yml in the working directory.
FsMissing == [kind |-> "missing"]
FsUnreadable == [kind |-> "unreadable"]
FsFile(text) == [kind |-> "file", text |-> text]

Ok(value) == [ok |-> TRUE, value |-> value]
Throw(error) == [ok |-> FALSE, error |-> error]

\* Deno.readTextFile(YAML_CONFIG_PATH)
readTextFile(f) ==
  CASE f.kind = "missing" -> Throw("NotFound")
    [] f.kind = "unreadable" -> Throw("PermissionDenied")
    [] f.kind = "file" -> Ok(f.text)

\* Variant of loadConfigFromYaml without the NotFound case: every error of
\* the read is thrown again.
loadConfigFromYamlRethrowAll(f) ==
  LET read == readTextFile(f)
  IN IF read.ok
     THEN IF read.value = YMalformed THEN Throw("YAMLException")
          ELSE Ok(parseYaml(read.value))
     ELSE Throw(read.error)

\* Variant of loadConfigFromYaml whose catch returns {} for every error.
loadConfigFromYamlCatchAll(f) ==
  LET read == readTextFile(f)
  IN IF read.ok /\ read.value # YMalformed THEN Ok(parseYaml(read.value))
     ELSE Ok(EmptyObj)

\* loadConfigFromYaml(): the parsed file; {} when the file does not exist;
\* every other error is thrown again.
loadConfigFromYaml(f) ==
  LET read == readTextFile(f)
  IN IF read.ok
     THEN IF read.value = YMalformed THEN Throw("YAMLException")
          ELSE Ok(parseYaml(read.value))
     ELSE IF read.error = "NotFound" THEN Ok(EmptyObj)
          ELSE Throw(read.error)

(***************************************************************************)
(* parseArgs of @std/cli and the command-line extractor.                   *)
(*                                                                         *)
(* An argument is one of: --key, --key=value, -k (one letter), a word      *)
(* (text that does not start with a dash) and the bare --.                 *)
(***************************************************************************)
Long(key) == [k |-> "long", key |-> key]
LongEq(key, value) == [k |-> "longeq", key |-> key, value |-> value]
Short(key) == [k |-> "short", key |-> key]
Word(s) == [k |-> "word", s |-> s]
DashDash == [k |-> "dashdash"]

\* The text of an argument; a flag's name counts as one character of it.
ArgText(arg) ==
  CASE arg.k = "word" -> arg.s
    [] arg.k = "long" -> <<"-", "-", arg.key>>
    [] arg.k = "longeq" -> <<"-", "-", arg.key, "=">> \o arg.value
    [] arg.k = "short" -> <<"-", arg.key>>
    [] arg.k = "dashdash" -> <<"-", "-">>

\* if (next): an argument is falsy when it is missing or the empty string.
ArgTruthy(args, i) ==
  i <= Len(args) /\ (args[i].k = "word" => Len(args[i].s) > 0)

\* isBooleanString(next)
IsBooleanString(arg) == arg.k = "word" /\ arg.s \in {s_true, s_false}

\* parseBooleanString(value): everything but 'false' is true.
ParseBooleanString(s) == Bool(s # s_false)

\* The keys a key is an alias of, from the alias option.
AliasesOf(opts, key) ==
  {a \in DOMAIN opts.alias : opts.alias[a] = key}
    \cup (IF key \in DOMAIN opts.alias THEN {opts.alias[key]} ELSE {})

\* booleanSet: the boolean keys and their aliases.
BooleanSet(opts) ==
  opts.boolean \cup UNION {AliasesOf(opts, key) : key \in opts.boolean}

\* setNested(argv, [key], value, collect): a collected key holds the array
\* of its values in the order met; any other key holds its last value.
SetNested(argv, key, value, collect) ==
  LET old == IF key \in DOMAIN argv THEN argv[key] ELSE Undefined
      new == IF ~collect THEN value
             ELSE IF old.t = "array" THEN Arr(Append(old.a, value))
             ELSE IF Truthy(old) THEN Arr(<<old, value>>)
             ELSE Arr(<<value>>)
  IN [x \in DOMAIN argv \cup {key} |-> IF x = key THEN new ELSE argv[x]]

RECURSIVE SetAll(_, _, _, _)
\* The same value set under every key of a set.
SetAll(argv, keys, value, collect) ==
  IF keys = {} THEN argv
  ELSE LET key == CHOOSE x \in keys : TRUE
       IN SetAll(SetNested(argv, key, value, collect), keys \ {key}, value,
                 collect)

\* setArgument(key, value, arg, true): a string value of a key that is not
\* declared a string becomes a number when it reads as one; the value is
\* set under the key and under its aliases.
SetArgument(opts, argv, key, value) ==
  LET v == IF value.t = "string" /\ key \notin opts.string /\ IsNumber(value.s)
           THEN Num(value.s) ELSE value
  IN SetAll(argv, {key} \cup AliasesOf(opts, key), v, key \in opts.collect)

\* The value of a flag met without =value, and whether it consumed the
\* next argument: the next argument when the key is not boolean and the
\* next argument does not start with a dash; the boolean the next argument
\* spells; otherwise '' for a string key and true for any other.
FlagValue(opts, args, i, key) ==
  IF ArgTruthy(args, i + 1) /\ key \notin BooleanSet(opts)
     /\ args[i + 1].k = "word"
  THEN [value |-> Str(args[i + 1].s), used |-> 2]
  ELSE IF ArgTruthy(args, i + 1) /\ IsBooleanString(args[i + 1])
       THEN [value |-> ParseBooleanString(args[i + 1].s), used |-> 2]
       ELSE [value |-> IF key \in opts.string THEN Str(<<>>) ELSE Bool(TRUE),
             used |-> 1]

\* argv._.push(arg): a positional argument, a number when it reads as one.
PushPositional(argv, s) ==
  [argv EXCEPT !["_"] = Arr(Append(argv["_"].a,
                                  IF IsNumber(s) THEN Num(s) ELSE Str(s)))]

RECURSIVE ParseFrom(_, _, _, _)
\* The argument loop of parseArgs from position i on.
ParseFrom(opts, args, i, argv) ==
  IF i > Len(args) THEN argv
  ELSE LET arg == args[i]
       IN CASE arg.k = "word" ->
                 ParseFrom(opts, args, i + 1, PushPositional(argv, arg.s))
            [] arg.k = "longeq" ->
                 ParseFrom(opts, args, i + 1,
                           SetArgument(opts, argv, arg.key,
                                       IF arg.key \in BooleanSet(opts)
                                       THEN ParseBooleanString(arg.value)
                                       ELSE Str(arg.value)))
            [] arg.k \in {"long", "short"} ->
                 LET fv == FlagValue(opts, args, i, arg.key)
                 IN ParseFrom(opts, args, i + fv.used,
                              SetArgument(opts, argv, arg.key, fv.value))

\* The position of the first bare -- in args, 0 when there is none.
DashDashIndex(args) ==
  IF \E i \in 1..Len(args) : args[i] = DashDash
  THEN CHOOSE i \in 1..Len(args) :
         args[i] = DashDash /\ \A j \in 1..(i - 1) : args[j] # DashDash
  ELSE 0

\* parseArgs(args, options): the arguments before -- are parsed, a boolean
\* key never met is false, and the arguments after -- are positional.
parseArgs(args, opts) ==
  LET cut == DashDashIndex(args)
      flags == IF cut = 0 THEN args ELSE SubSeq(args, 1, cut - 1)
      notFlags == IF cut = 0 THEN <<>> ELSE SubSeq(args, cut + 1, Len(args))
      parsed == ParseFrom(opts, flags, 1, [x \in {"_"} |-> Arr(<<>>)])
      unset == BooleanSet(opts) \ DOMAIN parsed
      filled == [x \in DOMAIN parsed \cup unset |->
                  IF x \in DOMAIN parsed THEN parsed[x] ELSE Bool(FALSE)]
  IN Obj([filled EXCEPT !["_"] =
            Arr(filled["_"].a \o [j \in 1..Len(notFlags) |->
                                   Str(ArgText(notFlags[j]))])])

\* cliOptions of loadConfigFromCli
cliOptions ==
  [boolean |-> {"help", "version", "public"},
   string |-> {"private-key", "encryption-mode", "server-info-name",
               "server-info-picture", "server-info-website"},
   collect |-> {"server", "relays", "allowed-public-keys"},
   alias |-> [h |-> "help", v |-> "version"]]

\* The serverInfo object loadConfigFromCli collects from the three
\* --server-info-* flags that are truthy.
CliServerInfo(parsedArgs) ==
  LET val == [name |-> Get(parsedArgs, "server-info-name"),
              picture |-> Get(parsedArgs, "server-info-picture"),
              website |-> Get(parsedArgs, "server-info-website")]
  IN ObjOf({k \in Range(ServerInfoKeys) : Truthy(val[k])}, val)

\* config.server of loadConfigFromCli: the values of --server followed by
\* the positional arguments; the positional arguments alone without the
\* flag; unset when there is neither.
CliServer(parsedArgs) ==
  LET positionalArgs == Get(parsedArgs, "_")
  IN IF Truthy(Get(parsedArgs, "server"))
     THEN IF Len(positionalArgs.a) > 0
          THEN Arr(Get(parsedArgs, "server").a \o positionalArgs.a)
          ELSE Get(parsedArgs, "server")
     ELSE IF Len(positionalArgs.a) > 0 THEN positionalArgs ELSE Undefined

\* The flag of each field that loadConfigFromCli copies when it is truthy.
CliFlag ==
  [privateKey |-> "private-key", relays |-> "relays", public |-> "public",
   allowedPublicKeys |-> "allowed-public-keys",
   encryptionMode |-> "encryption-mode"]

\* Variant of the copy that tests a flag for being defined instead of
\* truthy: what parseArgs filled in for a flag never met is copied too.
CliFieldIfDefined(parsedArgs, k) ==
  CASE k = "server" -> CliServer(parsedArgs)
    [] k = "serverInfo" ->
         IF DOMAIN CliServerInfo(parsedArgs).o # {}
         THEN CliServerInfo(parsedArgs) ELSE Undefined
    [] OTHER -> Get(parsedArgs, CliFlag[k])

\* The value loadConfigFromCli gives a field, undefined when it sets none.
CliField(parsedArgs, k) ==
  CASE k = "server" -> CliServer(parsedArgs)
    [] k = "serverInfo" ->
         IF DOMAIN CliServerInfo(parsedArgs).o # {}
         THEN CliServerInfo(parsedArgs) ELSE Undefined
    [] OTHER ->
         IF Truthy(Get(parsedArgs, CliFlag[k]))
         THEN Get(parsedArgs, CliFlag[k]) ELSE Undefined

\* The partial loadConfigFromCli builds from the parsed arguments.
CliConfigOf(parsedArgs) ==
  Obj([k \in {x \in Range(ShapeKeys) : CliField(parsedArgs, x) # Undefined} |->
        CliField(parsedArgs, k)])

\* loadConfigFromCli(args): every field whose parsed flag is truthy.
loadConfigFromCli(a) == CliConfigOf(parseArgs(a, cliOptions))

(***************************************************************************)
(* loadConfig: the three extractors, the merge and the validation.         *)
(***************************************************************************)
\* Variant of the arrays option: the default of deepMerge, which
\* concatenates.
ArraysOptionMerge == "merge"

\* The arrays option loadConfig gives both deepMerge calls.
ArraysOption == "replace"

\* Variant of the merge in the order of the README: the file overlaid by the
\* environment overlaid by the command line.
MergeConfigsEnvOverFile(envC, yamlC, cliC) ==
  deepMerge(deepMerge(yamlC, envC, ArraysOption), cliC, ArraysOption)

\* Variant of the merge that leaves the file out.
MergeConfigsWithoutFile(envC, yamlC, cliC) ==
  deepMerge(envC, cliC, ArraysOption)

\* mergedConfig of loadConfig: the environment overlaid by the file
\* overlaid by the command line.
MergeConfigs(envC, yamlC, cliC) ==
  deepMerge(deepMerge(envC, yamlC, ArraysOption), cliC, ArraysOption)

\* getKeys(record) of deepMerge throws a TypeError on undefined and null
\* (an empty file, a file that holds only null).
MergeThrows(yamlC) == yamlC.t \in {"undefined", "null"}

\* Variant of the last line of loadConfig that returns mergedConfig cast to
\* Config without parsing it.
ValidateByCast(yamlC, cliC, merged) ==
  [yamlConfig |-> yamlC, cliConfig |-> cliC, mergedConfig |-> merged,
   config |-> merged, error |-> "none"]

\* configSchema.parse(mergedConfig): the Config, or a ZodError.
Validate(yamlC, cliC, merged) ==
  IF configSchemaIssues(merged) # {}
  THEN [yamlConfig |-> yamlC, cliConfig |-> cliC, mergedConfig |-> merged,
        config |-> Undefined, error |-> "ZodError"]
  ELSE [yamlConfig |-> yamlC, cliConfig |-> cliC, mergedConfig |-> merged,
        config |-> configSchemaParse(merged), error |-> "none"]

\* loadConfig from the outcome of loadConfigFromYaml on: an error of the
\* file extractor is thrown on; otherwise the command line is extracted
\* and the three partials are merged and validated.
Resolve(envC, yaml, cliC) ==
  IF ~yaml.ok
  THEN [yamlConfig |-> Undefined, cliConfig |-> Undefined,
        mergedConfig |-> Undefined, config |-> Undefined,
        error |-> yaml.error]
  ELSE IF MergeThrows(yaml.value)
       THEN [yamlConfig |-> yaml.value, cliConfig |-> cliC,
             mergedConfig |-> Undefined, config |-> Undefined,
             error |-> "TypeError"]
       ELSE Validate(yaml.value, cliC, MergeConfigs(envC, yaml.value, cliC))

\* What loadConfig does once the file has been read. The result names the
\* locals and either the Config or the error thrown.
loadConfigResult(envC, f, a) ==
  Resolve(envC, loadConfigFromYaml(f), loadConfigFromCli(a))

(***************************************************************************)
(* The wizard's prompt (promptForValue of commands/init.ts).               *)
(***************************************************************************)
\* The prompts of initCommand in order: the keys of configSchema.shape,
\* with serverInfo replaced by the keys of serverInfoSchema.shape.
PromptKeys ==
  <<"server", "privateKey", "relays", "public", "name", "picture", "website",
    "allowedPublicKeys", "encryptionMode">>

\* isBooleanSchema(schema): a ZodBoolean under ZodOptional and ZodDefault.
isBooleanSchema(key) == key = "public"

\* schema instanceof z.ZodArray: true of server and relays; the schema of
\* allowedPublicKeys is a ZodOptional around the array.
IsZodArray(key) == key \in {"server", "relays"}

\* The schema a prompt validates against: the sub-fields of serverInfo are
\* optional strings.
PromptOk(key, v) ==
  IF key \in Range(ServerInfoKeys) THEN v = Undefined \/ IsString(v)
  ELSE FieldOk(key, v)

\* isOptional: schema.safeParse(undefined).success
IsOptional(key) == PromptOk(key, Undefined)

Whitespace == {" ", "\t"}

RECURSIVE TrimStart(_)
TrimStart(s) ==
  IF Len(s) > 0 /\ s[1] \in Whitespace THEN TrimStart(Tail(s)) ELSE s

RECURSIVE TrimEnd(_)
TrimEnd(s) ==
  IF Len(s) > 0 /\ s[Len(s)] \in Whitespace
  THEN TrimEnd(SubSeq(s, 1, Len(s) - 1)) ELSE s

\* String.prototype.trim
Trim(s) == TrimEnd(TrimStart(s))

RECURSIVE TrimAndFilter(_)
\* .map((item) => item.trim()).filter((item) => item.length > 0)
TrimAndFilter(items) ==
  IF items = <<>> THEN <<>>
  ELSE (IF Len(Trim(items[1].s)) > 0 THEN <<Str(Trim(items[1].s))>> ELSE <<>>)
         \o TrimAndFilter(Tail(items))

\* String.prototype.toLowerCase on the letters an answer is compared by.
ToLowerCase(s) ==
  [i \in 1..Len(s) |->
    IF s[i] = "Y" THEN "y" ELSE IF s[i] = "N" THEN "n" ELSE s[i]]

\* The value promptForValue reads from one answer of prompt() (a string, or
\* null when the input has ended), before validation; the result is
\* returned at once when returns is TRUE.
PromptValue(key, answer) ==
  IF isBooleanSchema(key)
  THEN IF IsOptional(key) /\ answer = Str(<<>>)
       THEN [returns |-> TRUE, value |-> Undefined]
       ELSE [returns |-> FALSE,
             value |-> Bool(answer # Null /\ ToLowerCase(answer.s) = <<"y">>)]
  ELSE IF IsOptional(key)
       THEN IF ~Truthy(answer) THEN [returns |-> TRUE, value |-> Undefined]
            ELSE [returns |-> FALSE, value |-> answer]
       ELSE [returns |-> FALSE,
             value |-> IF answer = Null THEN Str(<<>>) ELSE answer]

\* parsedValue: the answer split on commas, trimmed and without its empty
\* items when the schema is a ZodArray.
ParsedValue(key, value) ==
  IF IsZodArray(key) /\ value.t = "string"
  THEN Arr(TrimAndFilter(Split(value.s, ",")))
  ELSE value

\* Variant of one pass of the loop that returns the parsed value without
\* validating it.
PromptPassUnchecked(key, read) ==
  IF read.returns THEN [accepted |-> TRUE, value |-> read.value]
  ELSE [accepted |-> TRUE, value |-> ParsedValue(key, read.value)]

\* One pass of the loop of promptForValue: accepted with the value it
\* returns, or rejected (the error is printed and the prompt repeats).
PromptPass(key, read) ==
  IF read.returns THEN [accepted |-> TRUE, value |-> read.value]
  ELSE IF PromptOk(key, ParsedValue(key, read.value))
       THEN [accepted |-> TRUE, value |-> ParsedValue(key, read.value)]
       ELSE [accepted |-> FALSE, value |-> Undefined]

promptForValue(key, answer) == PromptPass(key, PromptValue(key, answer))

\* initCommand's use of an accepted answer: a top-level answer is stored
\* unless it is undefined, a serverInfo answer unless it is undefined or ''.
Stores(key, value) ==
  IF key \in Range(ServerInfoKeys)
  THEN value # Undefined /\ value # Str(<<>>)
  ELSE value # Undefined

\* config and the local serverInfo of initCommand after an accepted answer.
\* serverInfo is put into config after its last sub-field when it has a key.
StoreAnswer(w, key, value) ==
  LET si == IF key \in Range(ServerInfoKeys) /\ Stores(key, value)
            THEN [x \in DOMAIN w.serverInfo \cup {key} |->
                   IF x = key THEN value ELSE w.serverInfo[x]]
            ELSE w.serverInfo
      cfg == IF key \notin Range(ServerInfoKeys) /\ Stores(key, value)
             THEN [x \in DOMAIN w.config \cup {key} |->
                    IF x = key THEN value ELSE w.config[x]]
             ELSE IF key = ServerInfoKeys[Len(ServerInfoKeys)] /\ DOMAIN si # {}
                  THEN [x \in DOMAIN w.config \cup {"serverInfo"} |->
                         IF x = "serverInfo" THEN Obj(si) ELSE w.config[x]]
                  ELSE w.config
  IN [config |-> cfg, serverInfo |-> si]

(***************************************************************************)
(* The inputs of a run: the environment, the file and the argument vector. *)
(***************************************************************************)
Leaves ==
  {"server", "privateKey", "relays", "public", "name", "picture", "website",
   "allowedPublicKeys", "encryptionMode"}

Required == {"server", "privateKey", "relays"}

\* The sets of fields one source supplies: none, one field, the required
\* fields with at most one optional field, or every field.
SupplySets ==
  {S \in SUBSET Leaves :
     \/ Cardinality(S) <= 1
     \/ Required \subseteq S /\ Cardinality(S \ Required) <= 1
     \/ S = Leaves}

\* The value of each variable when the environment supplies the field.
EnvValue ==
  [server |-> <<"e", "n", "v", " ", "a">>,
   privateKey |-> Repeat("e", PrivateKeyMinLength),
   relays |-> <<"e", "1", ",", "e", "2">>,
   public |-> s_true,
   name |-> <<"e", "n">>,
   picture |-> <<"e", "p">>,
   website |-> <<"e", "w">>,
   allowedPublicKeys |-> <<"e", "a", ",", "e", "b">>,
   encryptionMode |-> EncryptionMode.REQUIRED]

EnvName ==
  [server |-> ENV_VARS.server, privateKey |-> ENV_VARS.privateKey,
   relays |-> ENV_VARS.relays, public |-> ENV_VARS.public,
   name |-> ENV_VARS.serverInfoName, picture |-> ENV_VARS.serverInfoPicture,
   website |-> ENV_VARS.serverInfoWebsite,
   allowedPublicKeys |-> ENV_VARS.allowedPublicKeys,
   encryptionMode |-> ENV_VARS.encryptionMode]

\* The environment that sets exactly the variables of the fields in S.
EnvOf(S) ==
  [n \in {EnvName[l] : l \in S} |->
    EnvValue[CHOOSE l \in S : EnvName[l] = n]]

\* The value of each key when the file supplies the field.
FileValue ==
  [server |-> Arr(<<Str(<<"y", "m", "l">>), Str(<<"a">>)>>),
   privateKey |-> Str(Repeat("y", PrivateKeyMinLength)),
   relays |-> Arr(<<Str(<<"y", "1">>)>>),
   public |-> Bool(FALSE),
   name |-> Str(<<"y", "n">>),
   picture |-> Str(<<"y", "p">>),
   website |-> Str(<<"y", "w">>),
   allowedPublicKeys |-> Arr(<<Str(<<"y", "a">>)>>),
   encryptionMode |-> Str(EncryptionMode.DISABLED)]

\* The object whose keys are the fields of S, serverInfo holding the
\* sub-fields among them.
ConfigOf(S, val) ==
  LET top == (S \ Range(ServerInfoKeys))
               \cup (IF S \cap Range(ServerInfoKeys) # {} THEN {"serverInfo"}
                     ELSE {})
  IN Obj([k \in top |->
           IF k = "serverInfo" THEN ObjOf(S \cap Range(ServerInfoKeys), val)
           ELSE val[k]])

\* The file yaml.dump writes for the fields of S; no file when S is empty.
FileOf(S) == IF S = {} THEN FsMissing ELSE FsFile(dump(ConfigOf(S, FileValue)))

\* The digit characters, to number the relays of the command line.
DigitOf == <<"1", "2", "3", "4", "5", "6", "7", "8", "9">>

RECURSIVE RelayFlags(_)
\* --relays c1 --relays c2 ... n times
RelayFlags(n) ==
  IF n = 0 THEN <<>>
  ELSE RelayFlags(n - 1) \o <<Long("relays"), Word(<<"c", DigitOf[n]>>)>>

\* The flags that supply each field on the command line.
ArgTokens ==
  [server |-> <<Long("server"), Word(<<"c", "l", "i">>), Word(<<"a">>)>>,
   privateKey |-> <<Long("private-key"), Word(Repeat("c", PrivateKeyMinLength))>>,
   relays |-> RelayFlags(MaxRepeat),
   public |-> <<Long("public")>>,
   name |-> <<Long("server-info-name"), Word(<<"c", "n">>)>>,
   picture |-> <<Long("server-info-picture"), Word(<<"c", "p">>)>>,
   website |-> <<Long("server-info-website"), Word(<<"c", "w">>)>>,
   allowedPublicKeys |-> <<Long("allowed-public-keys"), Word(<<"c", "a">>)>>,
   encryptionMode |-> <<Long("encryption-mode"), Word(EncryptionMode.OPTIONAL)>>]

\* The order in which ArgsOf writes the flags.
LeafOrder ==
  <<"privateKey", "relays", "public", "name", "picture", "website",
    "allowedPublicKeys", "encryptionMode", "server">>

RECURSIVE ArgsFrom(_, _)
ArgsFrom(S, i) ==
  IF i > Len(LeafOrder) THEN <<>>
  ELSE (IF LeafOrder[i] \in S THEN ArgTokens[LeafOrder[i]] ELSE <<>>)
         \o ArgsFrom(S, i + 1)

\* The argument vector that gives exactly the flags of the fields in S.
ArgsOf(S) == ArgsFrom(S, 1)

\* The runs in which each source supplies one of the supply sets.
SupplyCases ==
  {[env |-> EnvOf(a), fs |-> FileOf(b), args |-> ArgsOf(c)] :
     a \in SupplySets, b \in SupplySets, c \in SupplySets}

\* The file of S with the node of one top-level key replaced.
FileWith(S, key, node) ==
  FsFile(YMap([k \in DOMAIN dump(ConfigOf(S, FileValue)).m \cup {key} |->
                IF k = key THEN node ELSE dump(ConfigOf(S, FileValue)).m[k]]))

s_init == <<"i", "n", "i", "t">>

\* Files that cannot be read or parsed, that are empty, and files with a
\* key whose value the schema rejects or that is an empty list.
OddFiles ==
  {FsUnreadable, FsFile(YMalformed), FsFile(YEmpty), FsFile(YMap(<<>>)),
   FileWith(Required, "server", YSeq(<<>>)),
   FileWith(Required, "server", YScalar("plain", <<"y", "m", "l", " ", "a">>)),
   FileWith(Required, "privateKey",
            YScalar("plain", Repeat("y", PrivateKeyMinLength - 1))),
   FileWith(Required, "privateKey",
            YScalar("plain", Repeat("7", PrivateKeyMinLength))),
   FileWith(Required, "relays", YSeq(<<>>)),
   FileWith(Required, "relays", YScalar("plain", s_null)),
   FileWith({}, "relays", YSeq(<<>>)),
   FileWith({}, "server", YSeq(<<>>)),
   FileWith(Required, "public", YScalar("plain", s_true)),
   FileWith(Required, "serverInfo", YScalar("plain", <<>>)),
   FileWith(Required, "serverInfo", YMap(<<>>)),
   FileWith(Required, "allowedPublicKeys", YSeq(<<>>)),
   FileWith(Required, "encryptionMode",
            YScalar("plain", <<"n", "i", "p", "4", "4">>))}

\* The runs on such a file, under an environment and a command line that
\* supply nothing, the required fields, or every field.
FileCases ==
  {[env |-> EnvOf(a), fs |-> f, args |-> ArgsOf(c)] :
     a \in {{}, Required, Leaves}, f \in OddFiles,
     c \in {{}, Required, Leaves}}

\* The environment of S with one variable set to a value of its own.
EnvWith(S, name, value) ==
  [n \in DOMAIN EnvOf(S) \cup {name} |->
    IF n = name THEN value ELSE EnvOf(S)[n]]

\* Environments with a GW_SERVER that holds two spaces in a row, a leading
\* space, a tab or nothing but a space, with a GW_PUBLIC that is not
\* 'true', with variables set to the empty string, and with a
\* GW_ENCRYPTION_MODE outside the enumeration.
OddEnvs ==
  {EnvWith(Leaves, ENV_VARS.server, <<"n", "o", "d", "e", " ", " ", "a">>),
   EnvWith(Leaves, ENV_VARS.server, <<" ", "a">>),
   EnvWith(Leaves, ENV_VARS.server, <<"a", "\t", "b">>),
   EnvWith(Leaves, ENV_VARS.server, <<" ">>),
   EnvWith(Leaves, ENV_VARS.public, <<"T", "R", "U", "E">>),
   EnvWith(Leaves, ENV_VARS.public, <<"1">>),
   EnvWith(Leaves, ENV_VARS.public, <<"y", "e", "s">>),
   EnvWith(Leaves, ENV_VARS.public, s_false),
   EnvWith(Leaves, ENV_VARS.public, <<>>),
   EnvWith(Required, ENV_VARS.serverInfoName, <<>>),
   EnvWith(Required, ENV_VARS.relays, <<>>),
   EnvWith(Leaves, ENV_VARS.encryptionMode, <<"n", "i", "p", "4", "4">>)}

\* The runs under such an environment.
EnvCases ==
  {[env |-> e, fs |-> FileOf(b), args |-> ArgsOf(c)] :
     e \in OddEnvs, b \in {{}, Required}, c \in {{}, Required, Leaves}}

\* The flags of privateKey and relays, which the command lines below give
\* next to their server command.
KeyAndRelays == ArgsOf({"privateKey", "relays"})

\* Command lines whose server command is given by positional arguments
\* alone, holds a number, holds a flag of its own, is given by two --server
\* flags or starts before the flag; command lines with tokens after a bare
\* --; and --public=false.
OddArgs ==
  {KeyAndRelays \o <<Word(<<"n", "o", "d", "e">>), Word(<<"a">>)>>,
   KeyAndRelays \o <<Long("server"), Word(<<"n", "o", "d", "e">>),
                     Word(<<"8", "0">>)>>,
   KeyAndRelays \o <<Long("server"), Word(<<"8", "0">>)>>,
   KeyAndRelays \o <<Long("server"), Word(<<"n", "p", "x">>), Short("y"),
                     Word(<<"p", "k", "g">>)>>,
   KeyAndRelays \o <<Long("server"), Word(<<"a">>), Long("server"),
                     Word(<<"b">>), Word(<<"c">>)>>,
   <<Word(<<"x">>)>> \o KeyAndRelays
     \o <<Long("server"), Word(<<"n", "p", "x">>), Word(<<"y">>)>>,
   KeyAndRelays,
   ArgsOf(Required) \o <<DashDash, Short("h")>>,
   ArgsOf(Required) \o <<DashDash, Long("version")>>,
   <<LongEq("public", s_false)>> \o ArgsOf(Required),
   <<Long("server"), Short("h")>>,
   <<Long("private-key"), Long("help")>>,
   <<Short("h"), Short("v")>>}

\* The runs on such a command line.
ArgCases ==
  {[env |-> EnvOf(a), fs |-> FileOf(b), args |-> c] :
     a \in {{}, Leaves}, b \in {{}, Leaves}, c \in OddArgs}

\* The runs that ask for the usage, the version or the wizard.
CommandCases ==
  {[env |-> EnvOf(a), fs |-> f, args |-> c] :
     a \in {{}, Required},
     f \in {FsMissing, FileOf(Required), FsUnreadable},
     c \in {<<Long("help")>>, <<Short("h")>>, <<Long("version")>>,
            <<Short("v")>>, <<Word(s_init)>>, <<Long("init")>>,
            <<Word(s_init), Long("help")>>,
            ArgsOf(Required) \o <<Short("v")>>}}

\* The runs with init among other arguments: as the first argument before
\* the flags of the required fields, as --init after another flag, after a
\* bare --, and as the value of a flag.
InitCases ==
  {[env |-> EnvOf(Required), fs |-> FileOf(Required), args |-> c] :
     c \in {<<Word(s_init)>> \o ArgsOf(Required),
            <<Long("public"), Long("init")>>,
            <<DashDash, Word(s_init)>>,
            <<Long("private-key"), Word(s_init)>>}}

\* The runs on a command line without --public, with --public, with
\* --public=false and with --public false, under a file and an
\* environment that give public as true, as false or not at all.
PublicCases ==
  {[env |-> e, fs |-> f, args |-> c] :
     e \in {EnvOf({}), EnvOf({"public"}),
            EnvWith({}, ENV_VARS.public, s_false)},
     f \in {FileOf(Required),
            FileWith(Required, "public", YScalar("plain", s_true)),
            FileWith(Required, "public", YScalar("plain", s_false))},
     c \in {<<>>, <<Long("public")>>, <<LongEq("public", s_false)>>,
            <<Long("public"), Word(s_false)>>}}

\* The inputs of the first run.
InputCases ==
  SupplyCases \cup FileCases \cup EnvCases \cup ArgCases \cup CommandCases
    \cup InitCases \cup PublicCases

\* The answers the user gives to each prompt: prompt() returns the line
\* typed, or null when the input has ended.
Answers ==
  [server |-> {Str(<<"n", "o", "d", "e", " ", "a">>), Str(<<"a", ",", " ", "b">>),
               Str(<<",">>), Null},
   privateKey |-> {Str(Repeat("w", PrivateKeyMinLength)),
                   Str(Repeat("w", PrivateKeyMinLength - 1))},
   relays |-> {Str(<<"r", "1", ",", "r", "2">>), Str(<<" ", "r", "1", " ", ",">>),
               Str(<<>>)},
   public |-> {Str(<<"y">>), Str(<<"Y">>), Str(<<"n">>), Str(<<>>), Null},
   name |-> {Str(<<>>), Str(<<"w", "n">>), Str(s_true), Null},
   picture |-> {Str(<<>>), Str(<<"w", "p">>)},
   website |-> {Str(<<>>), Str(<<"1", "2">>)},
   allowedPublicKeys |-> {Str(<<>>), Str(<<"k", "1", ",", "k", "2">>)},
   encryptionMode |-> {Str(<<>>), Str(EncryptionMode.REQUIRED),
                       Str(<<"n", "i", "p", "4", "4">>)}]

(***************************************************************************)
(* The process (main.ts) and the wizard (initCommand).                     *)
(***************************************************************************)
VARIABLES
  args,          \* Deno.args
  env,           \* the environment variables of the process
  fs,            \* contextgw.config.yml in the working directory
  run,           \* the number of this run of the process
  pc,            \* where the process is
  envConfig,     \* the locals of loadConfig
  yamlConfig,
  cliConfig,
  mergedConfig,
  config,        \* the Config loadConfig returned to main
  error,         \* the error main().catch received
  exitCode,      \* the status Deno.exit was called with, -1 while running
  constructed,   \* the dependencies main has constructed, in order
  used,          \* the configuration the constructors were given
  started,       \* gateway.start() has been called
  listening,     \* the signal listeners are registered
  stopCalled,    \* gateway.stop() has been called
  stopThrew,     \* gateway.stop() has rejected
  signal,        \* the signal the process has received, "none" before
  wizard,        \* config and serverInfo of initCommand
  field,         \* the prompt the wizard is at, an index of PromptKeys
  rejected,      \* the answers rejected for this prompt so far
  answered,      \* the prompt answered last and the answer given
  shown,         \* the configuration the wizard displayed last
  saved          \* the wizard has written the displayed configuration

\* The state of a run of the install script.
VARIABLES
  sargs,              \* the arguments of the script
  OS,                 \* the system detect_os finds
  linked,             \* gateway-cli on the PATH leads to the install path
  otherInstall,       \* the gateway-cli at another place of the PATH
  binary,             \* the file at the install path
  backup,             \* the file at the backup path
  temp,               \* the file at the temporary path
  previous,           \* the file at the install path when the script began
  FORCE_INSTALL,
  INSTALLED_PATH,     \* "none" until found, then "managed" or "other"
  INSTALLED_VERSION,
  VERSION,
  comparison_result,
  is_upgrade,
  step,               \* where the script is
  status,             \* the exit status of the script, -1 while it runs
  printed,            \* the messages printed
  downloaded          \* a download has been started

mainVars ==
  <<envConfig, yamlConfig, cliConfig, mergedConfig, config, constructed,
    used, started, listening, stopCalled, stopThrew, signal>>

wizardVars == <<wizard, field, rejected, answered, shown, saved>>

gatewayVars ==
  <<args, env, fs, run, pc, error, exitCode, mainVars, wizardVars>>

installVars ==
  <<sargs, OS, linked, otherInstall, binary, backup, temp, previous,
    FORCE_INSTALL, INSTALLED_PATH, INSTALLED_VERSION, VERSION,
    comparison_result, is_upgrade, step, status, printed, downloaded>>

vars == <<gatewayVars, installVars>>

\* Variant of options without the alias entry: -h and -v are flags of
\* their own.
optionsWithoutAlias ==
  [boolean |-> {"help", "version", "init"},
   string |-> {},
   collect |-> {},
   alias |-> <<>>]

\* options of the parseArgs call at the top of main.ts
options ==
  [boolean |-> {"help", "version", "init"},
   string |-> {},
   collect |-> {},
   alias |-> [h |-> "help", v |-> "version"]]

\* The dependencies main constructs, in the order of the code.
Dependencies == <<"mcpClientTransport", "signer", "relayPool", "gateway">>

\* No prompt has been answered.
NotAnswered == [field |-> 0, answer |-> Undefined]

\* initCommand's config and serverInfo before the first answer.
NoAnswers == [config |-> <<>>, serverInfo |-> <<>>]

\* A fresh process in its first run.
ProcessStart ==
  /\ run = 1
  /\ pc = "start"
  /\ envConfig = Undefined
  /\ yamlConfig = Undefined
  /\ cliConfig = Undefined
  /\ mergedConfig = Undefined
  /\ config = Undefined
  /\ error = "none"
  /\ exitCode = -1
  /\ constructed = <<>>
  /\ used = Undefined
  /\ started = FALSE
  /\ listening = FALSE
  /\ stopCalled = FALSE
  /\ stopThrew = FALSE
  /\ signal = "none"
  /\ wizard = NoAnswers
  /\ field = 0
  /\ rejected = 0
  /\ answered = NotAnswered
  /\ shown = Undefined
  /\ saved = FALSE

\* No file at a path.
NoFile == [file |-> FALSE]

\* The first run: a fresh process on one of the inputs. The install script
\* is not run.
Init ==
  /\ \E c \in InputCases : args = c.args /\ env = c.env /\ fs = c.fs
  /\ ProcessStart
  /\ sargs = <<>>
  /\ OS = "linux"
  /\ linked = FALSE
  /\ otherInstall = NoFile
  /\ binary = NoFile
  /\ backup = NoFile
  /\ temp = NoFile
  /\ previous = NoFile
  /\ FORCE_INSTALL = FALSE
  /\ INSTALLED_PATH = "none"
  /\ INSTALLED_VERSION = <<>>
  /\ VERSION = <<>>
  /\ comparison_result = -1
  /\ is_upgrade = FALSE
  /\ step = "idle"
  /\ status = -1
  /\ printed = {}
  /\ downloaded = FALSE

\* Deno.exit(code)
Exit(code) == pc' = "exited" /\ exitCode' = code

\* main().catch: the error is printed and the process exits with status 1.
Catch(e) == error' = e /\ Exit(1)

\* args of main.ts: Deno.args parsed with options.
TopArgs == parseArgs(args, options)

\* if (args.help) { printUsage(); Deno.exit(0); }
Help ==
  /\ pc = "start"
  /\ Truthy(Get(TopArgs, "help"))
  /\ Exit(0)
  /\ UNCHANGED <<installVars, args, env, fs, run, error, mainVars, wizardVars>>

\* if (args.version) { console.log(version); Deno.exit(0); }
Version ==
  /\ pc = "start"
  /\ ~Truthy(Get(TopArgs, "help"))
  /\ Truthy(Get(TopArgs, "version"))
  /\ Exit(0)
  /\ UNCHANGED <<installVars, args, env, fs, run, error, mainVars, wizardVars>>

\* main is reached: neither help nor version was asked for.
MainRuns ==
  /\ pc = "start"
  /\ ~Truthy(Get(TopArgs, "help"))
  /\ ~Truthy(Get(TopArgs, "version"))

\* Variant of the test of main's init branch that looks at the flag only.
WantsInitFlagOnly == Truthy(Get(TopArgs, "init"))

\* args.init || Deno.args[0] === 'init'
WantsInit ==
  Truthy(Get(TopArgs, "init")) \/ (Len(args) >= 1 /\ args[1] = Word(s_init))

\* main() with init: initCommand starts and asks for the first field.
InitCommandStart ==
  /\ MainRuns
  /\ WantsInit
  /\ pc' = "prompt"
  /\ field' = 1
  /\ wizard' = NoAnswers
  /\ UNCHANGED <<installVars, args, env, fs, run, error, exitCode, mainVars,
                 rejected, answered, shown, saved>>

\* The user answers the prompt of the current field. A rejected answer
\* repeats the prompt; an accepted one is stored and the wizard goes on to
\* the next field, and after the last field it displays the configuration
\* and asks whether to save it.
Answer ==
  /\ pc = "prompt"
  /\ \E answer \in Answers[PromptKeys[field]] :
       \E r \in {promptForValue(PromptKeys[field], answer)} :
         /\ answered' = [field |-> field, answer |-> answer]
         /\ IF ~r.accepted
            THEN /\ rejected < MaxRejected
                 /\ rejected' = rejected + 1
                 /\ UNCHANGED <<pc, field, wizard, shown>>
            ELSE \E w \in {StoreAnswer(wizard, PromptKeys[field], r.value)} :
                   /\ wizard' = w
                   /\ rejected' = 0
                   /\ IF field < Len(PromptKeys)
                      THEN field' = field + 1 /\ UNCHANGED <<pc, shown>>
                      ELSE /\ pc' = "confirm"
                           /\ shown' = Obj(w.config)
                           /\ UNCHANGED field
  /\ UNCHANGED <<installVars, args, env, fs, run, error, exitCode, mainVars, saved>>

\* Variant of the last step of the wizard that writes the file before it
\* asks whether to save.
ConfirmAfterWriting ==
  /\ pc = "confirm"
  /\ fs' = FsFile(dump(shown))
  /\ \E save \in BOOLEAN : saved' = save
  /\ Exit(0)
  /\ UNCHANGED <<installVars, args, env, run, error, mainVars, wizard, field, rejected,
                 answered, shown>>

\* confirm(...): on yes the displayed YAML is written to the file, which
\* may fail; main then exits with status 0.
Confirm ==
  /\ pc = "confirm"
  /\ \E save \in BOOLEAN, writes \in BOOLEAN :
       IF save /\ writes
       THEN fs' = FsFile(dump(shown)) /\ saved' = TRUE /\ Exit(0)
                /\ UNCHANGED error
       ELSE IF save
            THEN Catch("PermissionDenied") /\ UNCHANGED <<fs, saved>>
            ELSE Exit(0) /\ UNCHANGED <<fs, saved, error>>
  /\ UNCHANGED <<installVars, args, env, run, mainVars, wizard, field, rejected, answered,
                 shown>>

\* main() without init: loadConfig starts, reads the environment and waits
\* for the file to be read.
LoadConfigStart ==
  /\ MainRuns
  /\ ~WantsInit
  /\ envConfig' = loadConfigFromEnv(env)
  /\ pc' = "readFile"
  /\ UNCHANGED <<installVars, args, env, fs, run, error, exitCode, yamlConfig, cliConfig,
                 mergedConfig, config, constructed, used, started, listening,
                 stopCalled, stopThrew, signal, wizardVars>>

\* The file read ends: loadConfig parses the file, extracts the command
\* line, merges and validates; it returns the Config to main or throws.
LoadConfigFinish ==
  /\ pc = "readFile"
  /\ \E r \in {loadConfigResult(envConfig, fs, args)} :
        /\ yamlConfig' = r.yamlConfig
        /\ cliConfig' = r.cliConfig
        /\ mergedConfig' = r.mergedConfig
        /\ config' = r.config
        /\ IF r.error = "none"
           THEN pc' = "loaded" /\ UNCHANGED <<error, exitCode>>
           ELSE Catch(r.error)
  /\ UNCHANGED <<installVars, args, env, fs, run, envConfig, constructed, used, started,
                 listening, stopCalled, stopThrew, signal, wizardVars>>

\* main after loadConfig: the transport, the signer, the relay pool and the
\* gateway are constructed from config and gateway.start() is called. A
\* constructor may throw; main().catch then ends the process.
Bootstrap ==
  /\ pc = "loaded"
  /\ \E n \in 0..Len(Dependencies) :
       /\ constructed' = SubSeq(Dependencies, 1, n)
       /\ IF n = Len(Dependencies)
          THEN /\ started' = TRUE
               /\ pc' = "starting"
               /\ UNCHANGED <<error, exitCode>>
          ELSE /\ Catch("Error")
               /\ UNCHANGED started
  /\ used' = config
  /\ UNCHANGED <<installVars, args, env, fs, run, envConfig, yamlConfig, cliConfig,
                 mergedConfig, config, listening, stopCalled, stopThrew,
                 signal, wizardVars>>

\* gateway.start() ends: the signal listeners are registered, or the
\* rejection reaches main().catch.
StartEnds ==
  /\ pc = "starting"
  /\ \E ok \in BOOLEAN :
       IF ok
       THEN pc' = "running" /\ listening' = TRUE /\ UNCHANGED <<error, exitCode>>
       ELSE Catch("Error") /\ UNCHANGED listening
  /\ UNCHANGED <<installVars, args, env, fs, run, envConfig, yamlConfig, cliConfig,
                 mergedConfig, config, constructed, used, started, stopCalled,
                 stopThrew, signal, wizardVars>>

\* SIGINT and SIGTERM
Signals == {"SIGINT", "SIGTERM"}

\* Variant of shutdown without the try: a rejection of gateway.stop() is
\* not caught, and Deno.exit(0) is not reached.
ShutdownWithoutTry ==
  /\ pc = "running"
  /\ listening
  /\ \E sig \in Signals, throws \in BOOLEAN :
       /\ signal' = sig
       /\ stopThrew' = throws
       /\ IF throws THEN Catch("Error") ELSE Exit(0) /\ UNCHANGED error
  /\ stopCalled' = TRUE
  /\ UNCHANGED <<installVars, args, env, fs, run, envConfig, yamlConfig, cliConfig,
                 mergedConfig, config, constructed, used, started, listening,
                 wizardVars>>

\* shutdown: SIGINT or SIGTERM reaches the listener; gateway.stop() is
\* awaited, an error of it is logged, and the process exits with status 0.
Shutdown ==
  /\ pc = "running"
  /\ listening
  /\ \E sig \in Signals, throws \in BOOLEAN :
       signal' = sig /\ stopThrew' = throws
  /\ stopCalled' = TRUE
  /\ Exit(0)
  /\ UNCHANGED <<installVars, args, env, fs, run, error, envConfig, yamlConfig, cliConfig,
                 mergedConfig, config, constructed, used, started, listening,
                 wizardVars>>

\* SIGINT or SIGTERM reaches the process while main awaits the file read
\* of loadConfig or gateway.start(): no listener is registered yet, and the
\* signal ends the process; Deno.exit is not called.
Killed ==
  /\ pc \in {"readFile", "starting"}
  /\ ~listening
  /\ \E sig \in Signals : signal' = sig
  /\ pc' = "killed"
  /\ UNCHANGED <<installVars, args, env, fs, run, error, exitCode, envConfig, yamlConfig,
                 cliConfig, mergedConfig, config, constructed, used, started,
                 listening, stopCalled, stopThrew, wizardVars>>

\* The gateway is started again in the same directory, with no arguments
\* and no GW_ variable set.
Restart ==
  /\ pc = "exited"
  /\ run < MaxRuns
  /\ run' = run + 1
  /\ args' = <<>>
  /\ env' = EnvOf({})
  /\ pc' = "start"
  /\ envConfig' = Undefined
  /\ yamlConfig' = Undefined
  /\ cliConfig' = Undefined
  /\ mergedConfig' = Undefined
  /\ config' = Undefined
  /\ error' = "none"
  /\ exitCode' = -1
  /\ constructed' = <<>>
  /\ used' = Undefined
  /\ started' = FALSE
  /\ listening' = FALSE
  /\ stopCalled' = FALSE
  /\ stopThrew' = FALSE
  /\ signal' = "none"
  /\ wizard' = NoAnswers
  /\ field' = 0
  /\ rejected' = 0
  /\ answered' = NotAnswered
  /\ UNCHANGED <<installVars, fs, shown, saved>>

Next ==
  \/ Help
  \/ Version
  \/ InitCommandStart
  \/ Answer
  \/ Confirm
  \/ LoadConfigStart
  \/ LoadConfigFinish
  \/ Bootstrap
  \/ StartEnds
  \/ Shutdown
  \/ Killed
  \/ Restart

Spec == Init /\ [][Next]_vars

\* The first run on one of the inputs that ask for the usage, the version
\* or the wizard.
CommandInit ==
  /\ Init
  /\ \E c \in CommandCases \cup InitCases :
       args = c.args /\ env = c.env /\ fs = c.fs

\* The runs from CommandInit in which the user answers the prompt in front
\* of them and the confirmation: prompt() and confirm() return.
CommandSpec ==
  /\ CommandInit
  /\ [][Next]_vars
  /\ WF_vars(Answer)
  /\ WF_vars(Confirm)

(***************************************************************************)
(* The install script (install.sh).                                        *)
(***************************************************************************)
\* A gateway-cli binary of a version, found on the machine or downloaded
\* from the release. Its --version succeeds always, never, or only while
\* the file is at the temporary path.
Binary(version, works, origin) ==
  [file |-> TRUE, version |-> version, works |-> works, origin |-> origin]

\* file --version, run at the temporary path or at its installed path
RunsVersion(f, where) ==
  /\ f.file
  /\ \/ f.works = "always"
     \/ f.works = "tempOnly" /\ where = "temp"

RECURSIVE CompareFrom(_, _, _)
\* The loop of compare_versions over major, minor and patch. ${V[i]:-0} is
\* evaluated as a number: a missing part and a word count as 0.
CompareFrom(version1, version2, i) ==
  LET v1 == IF i <= Len(version1) THEN version1[i] ELSE 0
      v2 == IF i <= Len(version2) THEN version2[i] ELSE 0
  IN IF i > 3 THEN 2
     ELSE IF v1 > v2 THEN 0
     ELSE IF v1 < v2 THEN 1
     ELSE CompareFrom(version1, version2, i + 1)

\* compare_versions: 0 when version1 is greater, 1 when it is smaller, 2
\* when the two are equal, as texts or part by part.
compare_versions(version1, version2) ==
  IF version1 = version2 THEN 2 ELSE CompareFrom(version1, version2, 1)

\* The exit status of curl -s when the API cannot be reached.
CurlCouldNotResolve == 6

\* The tags of the latest release, with the v removed.
ReleaseTags == {<<1, 2>>, <<1, 2, 3>>, <<1, 3, 0>>}

\* Variant of the test of the download that is run on no system.
TestsDownloadNever(os) == FALSE

\* if [ "$OS" != "windows" ]: the download is tested at the temporary path
\* on Linux and macOS.
TestsDownload(os) == os # "windows"

\* The script starts with one of its argument vectors, on one of the
\* systems uname -s names, on a machine with or without a binary at the
\* install path (of version 1.2.0, 1.2.3 or 1.10.0, working or broken,
\* linked from gateway-cli on the PATH or not) and with or without a
\* gateway-cli at another place of the PATH; the gateway does not run.
InstallInit ==
  /\ args = <<>>
  /\ env = EnvOf({})
  /\ fs = FsMissing
  /\ ProcessStart
  /\ sargs \in {<<>>, <<"--force">>, <<"-f">>, <<"--help">>,
                <<"--force", "-h">>, <<"--bogus">>}
  /\ OS \in {"linux", "macos", "windows", "other"}
  /\ binary \in
       {Binary(v, w, "machine") :
          v \in {<<1, 2, 0>>, <<1, 2, 3>>, <<1, 10, 0>>},
          w \in {"always", "never"}} \cup {NoFile}
  /\ linked \in {binary.file, FALSE}
  /\ otherInstall \in {NoFile, Binary(<<1, 2, 3>>, "always", "machine")}
  /\ backup = NoFile
  /\ temp = NoFile
  /\ previous = binary
  /\ FORCE_INSTALL = FALSE
  /\ INSTALLED_PATH = "none"
  /\ INSTALLED_VERSION = <<>>
  /\ VERSION = <<>>
  /\ comparison_result = -1
  /\ is_upgrade = FALSE
  /\ step = "parse_args"
  /\ status = -1
  /\ printed = {}
  /\ downloaded = FALSE

\* exit n, and the exit set -e makes when a command returns n # 0.
ScriptExit(n) == step' = "exited" /\ status' = n

\* print_error: the message is printed and the script exits with status 1.
print_error(message) == printed' = printed \cup {message} /\ ScriptExit(1)

\* parse_args: -f and --force set FORCE_INSTALL, -h and --help print the
\* usage and exit with status 0, any other argument is an error.
ParseArgs ==
  /\ step = "parse_args"
  /\ FORCE_INSTALL' =
       (\E i \in 1..Len(sargs) :
          /\ sargs[i] \in {"-f", "--force"}
          /\ \A j \in 1..i : sargs[j] \in {"-f", "--force"})
  /\ IF \A i \in 1..Len(sargs) : sargs[i] \in {"-f", "--force"}
     THEN step' = "detect_os" /\ UNCHANGED <<status, printed>>
     ELSE \E first \in {i \in 1..Len(sargs) :
                          /\ sargs[i] \notin {"-f", "--force"}
                          /\ \A j \in 1..(i - 1) :
                               sargs[j] \in {"-f", "--force"}} :
            IF sargs[first] \in {"-h", "--help"}
            THEN printed' = printed \cup {"usage"} /\ ScriptExit(0)
            ELSE print_error("Unknown option")
  /\ UNCHANGED <<gatewayVars, sargs, OS, linked, otherInstall, binary, backup,
                 temp, previous, INSTALLED_PATH, INSTALLED_VERSION, VERSION,
                 comparison_result, is_upgrade, downloaded>>

\* detect_os: an unsupported system is an error.
DetectOs ==
  /\ step = "detect_os"
  /\ IF OS = "other"
     THEN print_error("Unsupported operating system")
     ELSE step' = "check" /\ UNCHANGED <<status, printed>>
  /\ UNCHANGED <<gatewayVars, sargs, OS, linked, otherInstall, binary, backup,
                 temp, previous, FORCE_INSTALL, INSTALLED_PATH,
                 INSTALLED_VERSION, VERSION, comparison_result, is_upgrade,
                 downloaded>>

\* if check_existing_installation of main. command -v finds the
\* gateway-cli at another place of the PATH when there is one, else the
\* binary at the install path through its link. INSTALLED_VERSION is the
\* version grep -oE takes from the output of gateway-cli --version, and
\* 'unknown', here the empty sequence, when that fails.
CheckExisting ==
  /\ step = "check"
  /\ \E found \in {IF otherInstall.file THEN otherInstall
                   ELSE IF linked THEN binary ELSE NoFile} :
       IF found.file
       THEN /\ INSTALLED_PATH' =
                 IF otherInstall.file THEN "other" ELSE "managed"
            /\ INSTALLED_VERSION' =
                 IF RunsVersion(found, "installed") THEN found.version
                 ELSE <<>>
            /\ step' = "handle_other"
       ELSE /\ step' = "get_latest"
            /\ UNCHANGED <<INSTALLED_PATH, INSTALLED_VERSION>>
  /\ UNCHANGED <<gatewayVars, sargs, OS, linked, otherInstall, binary, backup,
                 temp, previous, FORCE_INSTALL, VERSION, comparison_result,
                 is_upgrade, status, printed, downloaded>>

\* handle_other_installations: for a gateway-cli at another place the user
\* is asked whether to remove it. The function returns 1 when the user
\* keeps it, and under set -e the script ends there with that status.
HandleOther ==
  /\ step = "handle_other"
  /\ IF INSTALLED_PATH = "other"
     THEN \E remove \in BOOLEAN :
            IF remove
            THEN /\ otherInstall' = NoFile
                 /\ step' = "get_latest"
                 /\ UNCHANGED status
            ELSE ScriptExit(1) /\ UNCHANGED otherInstall
     ELSE step' = "get_latest" /\ UNCHANGED <<otherInstall, status>>
  /\ UNCHANGED <<gatewayVars, sargs, OS, linked, binary, backup, temp,
                 previous, FORCE_INSTALL, INSTALLED_PATH, INSTALLED_VERSION,
                 VERSION, comparison_result, is_upgrade, printed, downloaded>>

\* get_latest_release: the tag of the latest release becomes VERSION. When
\* curl fails the assignment fails and set -e ends the script; a response
\* without tag_name is an error.
GetLatestRelease ==
  /\ step = "get_latest"
  /\ \E response \in {"release", "no tag_name", "unreachable"} :
       IF response = "unreachable"
       THEN ScriptExit(CurlCouldNotResolve) /\ UNCHANGED <<VERSION, printed>>
       ELSE IF response = "no tag_name"
            THEN /\ print_error("Could not determine latest version")
                 /\ UNCHANGED VERSION
            ELSE /\ \E tag \in ReleaseTags : VERSION' = tag
                 /\ step' = IF INSTALLED_PATH = "none" THEN "install_binary"
                            ELSE "compare"
                 /\ UNCHANGED <<status, printed>>
  /\ UNCHANGED <<gatewayVars, sargs, OS, linked, otherInstall, binary, backup,
                 temp, previous, FORCE_INSTALL, INSTALLED_PATH,
                 INSTALLED_VERSION, comparison_result, is_upgrade, downloaded>>

\* compare_versions "${VERSION#v}" "${INSTALLED_VERSION#v}" of main: a
\* simple command, so that under set -e a return of 1 or 2 ends the script
\* with that status; only after a return of 0 is comparison_result set.
CompareVersions ==
  /\ step = "compare"
  /\ \E r \in {compare_versions(VERSION, INSTALLED_VERSION)} :
       IF r # 0
       THEN ScriptExit(r) /\ UNCHANGED comparison_result
       ELSE /\ comparison_result' = r
            /\ step' = "decide"
            /\ UNCHANGED status
  /\ UNCHANGED <<gatewayVars, sargs, OS, linked, otherInstall, binary, backup,
                 temp, previous, FORCE_INSTALL, INSTALLED_PATH,
                 INSTALLED_VERSION, VERSION, is_upgrade, printed, downloaded>>

\* The if of main on comparison_result and FORCE_INSTALL.
Decide ==
  /\ step = "decide"
  /\ IF comparison_result = 2 /\ ~FORCE_INSTALL
     THEN /\ printed' = printed \cup {"already up to date"}
          /\ ScriptExit(0)
     ELSE IF comparison_result = 1 /\ ~FORCE_INSTALL
          THEN /\ printed' = printed \cup {"installed is newer"}
               /\ ScriptExit(0)
          ELSE /\ printed' =
                    printed \cup
                      (IF comparison_result = 0 THEN {"new version available"}
                       ELSE IF FORCE_INSTALL THEN {"force installing"}
                       ELSE {})
               /\ step' = "install_binary"
               /\ UNCHANGED status
  /\ UNCHANGED <<gatewayVars, sargs, OS, linked, otherInstall, binary, backup,
                 temp, previous, FORCE_INSTALL, INSTALLED_PATH,
                 INSTALLED_VERSION, VERSION, comparison_result, is_upgrade,
                 downloaded>>

\* install_binary, to the download: it is an upgrade when there is a file
\* at the install path.
InstallBinary ==
  /\ step = "install_binary"
  /\ is_upgrade' = binary.file
  /\ step' = "download"
  /\ UNCHANGED <<gatewayVars, sargs, OS, linked, otherInstall, binary, backup,
                 temp, previous, FORCE_INSTALL, INSTALLED_PATH,
                 INSTALLED_VERSION, VERSION, comparison_result, status,
                 printed, downloaded>>

\* curl -L -o "$TEMP_FILE" "$BINARY_URL" || print_error "Download failed"
Download ==
  /\ step = "download"
  /\ downloaded' = TRUE
  /\ \E ok \in BOOLEAN :
       IF ok
       THEN /\ \E works \in {"always", "never", "tempOnly"} :
                 temp' = Binary(VERSION, works, "release")
            /\ step' = "test"
            /\ UNCHANGED <<status, printed>>
       ELSE print_error("Download failed") /\ UNCHANGED temp
  /\ UNCHANGED <<gatewayVars, sargs, OS, linked, otherInstall, binary, backup,
                 previous, FORCE_INSTALL, INSTALLED_PATH, INSTALLED_VERSION,
                 VERSION, comparison_result, is_upgrade>>

\* The test of the downloaded file at the temporary path.
TestDownload ==
  /\ step = "test"
  /\ IF TestsDownload(OS) /\ ~RunsVersion(temp, "temp")
     THEN print_error("Downloaded binary appears to be corrupted")
     ELSE step' = "backup" /\ UNCHANGED <<status, printed>>
  /\ UNCHANGED <<gatewayVars, sargs, OS, linked, otherInstall, binary, backup,
                 temp, previous, FORCE_INSTALL, INSTALLED_PATH,
                 INSTALLED_VERSION, VERSION, comparison_result, is_upgrade,
                 downloaded>>

\* cp of the binary to the backup path, in an upgrade.
Backup ==
  /\ step = "backup"
  /\ backup' = IF is_upgrade THEN binary ELSE backup
  /\ step' = "move"
  /\ UNCHANGED <<gatewayVars, sargs, OS, linked, otherInstall, binary, temp,
                 previous, FORCE_INSTALL, INSTALLED_PATH, INSTALLED_VERSION,
                 VERSION, comparison_result, is_upgrade, status, printed,
                 downloaded>>

\* mv of the temporary file to the install path. On Linux and macOS
\* without write access to the directory gateway-cli is linked here, on
\* Windows the link is tried.
MoveToInstallPath ==
  /\ step = "move"
  /\ binary' = temp
  /\ temp' = NoFile
  /\ \E l \in BOOLEAN : linked' = (linked \/ l)
  /\ step' = "verify"
  /\ UNCHANGED <<gatewayVars, sargs, OS, otherInstall, backup, previous,
                 FORCE_INSTALL, INSTALLED_PATH, INSTALLED_VERSION, VERSION,
                 comparison_result, is_upgrade, status, printed, downloaded>>

\* In an upgrade the installed file is run with --version: when that
\* succeeds the backup is removed, else the backup is moved back and the
\* script exits with status 1.
VerifyUpgrade ==
  /\ step = "verify"
  /\ IF is_upgrade /\ RunsVersion(binary, "installed")
     THEN /\ backup' = NoFile
          /\ step' = "link"
          /\ UNCHANGED <<binary, status, printed>>
     ELSE IF is_upgrade
          THEN /\ binary' = backup
               /\ backup' = NoFile
               /\ print_error("Upgrade failed, previous version restored")
          ELSE /\ step' = "link"
               /\ UNCHANGED <<binary, backup, status, printed>>
  /\ UNCHANGED <<gatewayVars, sargs, OS, linked, otherInstall, temp, previous,
                 FORCE_INSTALL, INSTALLED_PATH, INSTALLED_VERSION, VERSION,
                 comparison_result, is_upgrade, downloaded>>

\* The end of install_binary: gateway-cli is linked on Linux and macOS and
\* the success is printed.
InstallBinaryEnds ==
  /\ step = "link"
  /\ linked' = (linked \/ OS # "windows")
  /\ printed' = printed \cup {IF is_upgrade THEN "upgraded" ELSE "installed"}
  /\ step' = "final"
  /\ UNCHANGED <<gatewayVars, sargs, OS, otherInstall, binary, backup, temp,
                 previous, FORCE_INSTALL, INSTALLED_PATH, INSTALLED_VERSION,
                 VERSION, comparison_result, is_upgrade, status, downloaded>>

\* The end of main: the file at the install path is run with --version;
\* the script ends with status 0, or with an error when the run fails.
FinalVerification ==
  /\ step = "final"
  /\ IF RunsVersion(binary, "installed")
     THEN printed' = printed \cup {"complete"} /\ ScriptExit(0)
     ELSE print_error("Installation verification failed")
  /\ UNCHANGED <<gatewayVars, sargs, OS, linked, otherInstall, binary, backup,
                 temp, previous, FORCE_INSTALL, INSTALLED_PATH,
                 INSTALLED_VERSION, VERSION, comparison_result, is_upgrade,
                 downloaded>>

\* A run of the script.
InstallSpec ==
  InstallInit /\
  [][\/ ParseArgs
     \/ DetectOs
     \/ CheckExisting
     \/ HandleOther
     \/ GetLatestRelease
     \/ CompareVersions
     \/ Decide
     \/ InstallBinary
     \/ Download
     \/ TestDownload
     \/ Backup
     \/ MoveToInstallPath
     \/ VerifyUpgrade
     \/ InstallBinaryEnds
     \/ FinalVerification]_vars


(***************************************************************************)
(* Properties of the resolution.                                           *)
(***************************************************************************)
\* loadConfig has returned or thrown in this run.
LoadDone ==
  /\ envConfig # Undefined
  /\ pc # "readFile"
  /\ (pc = "killed" => started)

\* loadConfig has returned a Config in this run.
Succeeded == config # Undefined

\* The fields of the configuration other than the nested record.
TopFields == Range(ShapeKeys) \ {"serverInfo"}

\* The ordered-sequence fields.
SequenceFields == {"server", "relays", "allowedPublicKeys"}

\* A source supplies a field when its partial has the key; it supplies a
\* sub-field of serverInfo when its serverInfo has the key.
Supplies(src, key) ==
  /\ src.t = "object"
  /\ IF key \in Range(ServerInfoKeys)
     THEN /\ Get(src, "serverInfo").t = "object"
          /\ key \in DOMAIN Get(src, "serverInfo").o
     ELSE key \in DOMAIN src.o

\* The value a partial or the Config holds for a field or a sub-field.
ValueOf(src, key) ==
  IF ~Supplies(src, key) THEN Undefined
  ELSE IF key \in Range(ServerInfoKeys) THEN Get(src, "serverInfo").o[key]
       ELSE src.o[key]

\* The elements of a sequence value; a value that is no sequence has none.
Elements(v) == IF v.t = "array" THEN Range(v.a) ELSE {}

\* The partials in the order of falling precedence.
Partials == <<cliConfig, yamlConfig, envConfig>>

Suppliers(key) == {i \in 1..3 : Supplies(Partials[i], key)}

\* The partial of the highest-precedence source supplying the key.
Highest(key) ==
  Partials[CHOOSE i \in Suppliers(key) : \A j \in Suppliers(key) : i <= j]

\* The key holds the value of the highest-precedence source supplying it.
TakenFromHighest(key) == ValueOf(config, key) = ValueOf(Highest(key), key)

\* C1 (as amended): when loadConfig succeeds, every field other than
\* serverInfo that more than one source supplies, and every sub-field of
\* serverInfo that more than one source supplies, has the value of the
\* highest-precedence source supplying it, with the command line over the
\* file over the environment.
C1_Precedence ==
  Succeeded =>
    \A key \in TopFields \cup Range(ServerInfoKeys) :
      Cardinality(Suppliers(key)) >= 2 => TakenFromHighest(key)

\* C1 as stated: the same of every field, serverInfo as a whole included.
C1_PrecedenceEveryField ==
  Succeeded =>
    \A key \in Range(ShapeKeys) :
      Cardinality(Suppliers(key)) >= 2 => TakenFromHighest(key)

\* C1: a successful resolution in which all three sources supply relays
\* with three different values, and the file and the command line both
\* supply serverInfo.
C1_Witness ==
  /\ Succeeded
  /\ Suppliers("relays") = {1, 2, 3}
  /\ ValueOf(envConfig, "relays") # ValueOf(yamlConfig, "relays")
  /\ ValueOf(yamlConfig, "relays") # ValueOf(cliConfig, "relays")
  /\ ValueOf(envConfig, "relays") # ValueOf(cliConfig, "relays")
  /\ {1, 2} \subseteq Suppliers("serverInfo")
  /\ ValueOf(config, "serverInfo") # ValueOf(cliConfig, "serverInfo")

\* C2: a field supplied by a GW_ variable and by the file and not by the
\* command line resolves to the variable's value (the README's order).
C2_EnvOverFile ==
  Succeeded =>
    \A key \in TopFields \cup Range(ServerInfoKeys) :
      Suppliers(key) = {2, 3} =>
        ValueOf(config, key) = ValueOf(envConfig, key)

\* C3: a dependency is constructed and gateway.start() is called only when
\* the schema accepted the merged configuration, and what they are given
\* is the Config the validation returned; after a validation error nothing
\* is constructed, nothing is started and no configuration was handed on.
C3_BootstrapAfterValidation ==
  /\ (constructed # <<>> \/ started \/ used # Undefined) =>
       /\ mergedConfig # Undefined
       /\ configSchemaIssues(mergedConfig) = {}
       /\ config = configSchemaParse(mergedConfig)
       /\ used = config
  /\ (LoadDone /\ mergedConfig # Undefined
        /\ configSchemaIssues(mergedConfig) # {}) =>
       /\ error = "ZodError"
       /\ constructed = <<>>
       /\ ~started
       /\ used = Undefined

\* C3: the gateway was started on a validated configuration, all four
\* dependencies constructed.
C3_Witness ==
  /\ started
  /\ constructed = Dependencies
  /\ used = config
  /\ Cardinality(Suppliers("privateKey")) >= 2

\* C4: when loadConfig succeeds, a sequence field that two or more sources
\* supply is the sequence of the highest-precedence source supplying it:
\* the same length, the same element at every index, and so no element
\* that only a lower-precedence source holds.
C4_SequencesReplaced ==
  Succeeded =>
    \A key \in SequenceFields :
      Cardinality(Suppliers(key)) >= 2 =>
        /\ ValueOf(config, key).t = "array"
        /\ Len(ValueOf(config, key).a) = Len(ValueOf(Highest(key), key).a)
        /\ \A i \in 1..Len(ValueOf(config, key).a) :
             ValueOf(config, key).a[i] = ValueOf(Highest(key), key).a[i]
        /\ \A j \in Suppliers(key) :
             \A x \in Elements(ValueOf(Partials[j], key)) :
               x \in Elements(ValueOf(config, key)) =>
                 x \in Elements(ValueOf(Highest(key), key))

\* C4: the three sources supply server, relays and allowedPublicKeys, the
\* file and the environment each with an element the command line's
\* sequence lacks, and the resolution succeeded.
C4_Witness ==
  /\ Succeeded
  /\ \A key \in SequenceFields :
       /\ Suppliers(key) = {1, 2, 3}
       /\ \A j \in {2, 3} :
            Elements(ValueOf(Partials[j], key))
              \ Elements(ValueOf(cliConfig, key)) # {}
  /\ Len(ValueOf(cliConfig, "relays").a) >= 2

RequiredMissing(merged) ==
  \/ ValueOf(merged, "server") = Undefined
  \/ ValueOf(merged, "server") = Arr(<<>>)
  \/ ValueOf(merged, "privateKey") = Undefined
  \/ /\ ValueOf(merged, "privateKey").t = "string"
     /\ Len(ValueOf(merged, "privateKey").s) < 64
  \/ ValueOf(merged, "relays") = Undefined
  \/ ValueOf(merged, "relays") = Arr(<<>>)

\* C6: once the three partials are merged, a merged configuration whose
\* server is missing or empty, whose privateKey is missing or shorter than
\* 64 characters, or whose relays is missing or empty makes loadConfig
\* throw a validation error and the process exit with status 1.
C6_RequiredFields ==
  (LoadDone /\ mergedConfig # Undefined /\ RequiredMissing(mergedConfig)) =>
    /\ config = Undefined
    /\ error = "ZodError"
    /\ pc = "exited"
    /\ exitCode = 1

\* C6: a run that ended on a merged configuration whose server and
\* privateKey are accepted and whose relays is the empty sequence.
C6_Witness ==
  /\ LoadDone
  /\ mergedConfig # Undefined
  /\ FieldOk("server", ValueOf(mergedConfig, "server"))
  /\ FieldOk("privateKey", ValueOf(mergedConfig, "privateKey"))
  /\ ValueOf(mergedConfig, "relays") = Arr(<<>>)
  /\ exitCode = 1

\* The outcome of validating the merge of the environment's and the command
\* line's partials alone.
WithoutFile ==
  Validate(EmptyObj, cliConfig, deepMerge(envConfig, cliConfig, "replace"))

\* C7: when the file does not exist, the file extractor returns {} and
\* throws nothing, and loadConfig ends as the validation of the merge of
\* the environment's and the command line's partials alone ends: with the
\* same merged configuration and the same Config or the same error.
C7_MissingFile ==
  (LoadDone /\ fs = FsMissing) =>
    /\ yamlConfig = EmptyObj
    /\ mergedConfig = WithoutFile.mergedConfig
    /\ config = WithoutFile.config
    /\ (config = Undefined) = (error = "ZodError")
    /\ WithoutFile.error = IF config = Undefined THEN "ZodError" ELSE "none"

\* C7: a run without a file that resolved a configuration from fields of
\* the environment and of the command line.
C7_Witness ==
  /\ LoadDone
  /\ fs = FsMissing
  /\ Succeeded
  /\ \E key \in TopFields : Suppliers(key) = {3}
  /\ \E key \in TopFields : Suppliers(key) = {1}

\* The error reading or parsing the file ends with, "none" when the file is
\* read and parsed or does not exist.
FileFailure ==
  IF fs = FsUnreadable THEN "PermissionDenied"
  ELSE IF fs = FsFile(YMalformed) THEN "YAMLException"
       ELSE "none"

\* C8: when the file exists and cannot be read or parsed, loadConfig throws
\* that error, nothing is merged or validated, no dependency is constructed,
\* the gateway is not started and the process exits with status 1.
C8_FileFailureFatal ==
  (LoadDone /\ FileFailure # "none") =>
    /\ error = FileFailure
    /\ yamlConfig = Undefined
    /\ mergedConfig = Undefined
    /\ config = Undefined
    /\ constructed = <<>>
    /\ used = Undefined
    /\ ~started
    /\ pc = "exited"
    /\ exitCode = 1

\* C8: a run that ended on a file that does not parse although the
\* environment supplies every required field.
C8_Witness ==
  /\ LoadDone
  /\ fs = FsFile(YMalformed)
  /\ Required \subseteq {key \in TopFields : Supplies(envConfig, key)}
  /\ error = "YAMLException"
  /\ exitCode = 1

\* The fields and sub-fields a partial supplies.
SuppliedBy(src) ==
  {key \in TopFields \cup Range(ServerInfoKeys) : Supplies(src, key)}

\* No field or sub-field is supplied by two sources.
Disjoint ==
  \A key \in TopFields \cup Range(ServerInfoKeys) :
    Cardinality(Suppliers(key)) <= 1

\* C9: when loadConfig succeeds on sources that supply pairwise disjoint
\* sets of fields (sub-fields of serverInfo counted one by one), the Config
\* holds every supplied field with the value of the one source supplying it.
C9_DisjointUnion ==
  (Succeeded /\ Disjoint) =>
    \A i \in 1..3 :
      \A key \in SuppliedBy(Partials[i]) :
        /\ Supplies(config, key)
        /\ ValueOf(config, key) = ValueOf(Partials[i], key)

\* C9: a successful resolution from disjoint sources, each of which
\* supplies a field.
C9_Witness ==
  /\ Succeeded
  /\ Disjoint
  /\ \A i \in 1..3 : SuppliedBy(Partials[i]) # {}

(***************************************************************************)
(* Properties of the wizard.                                               *)
(***************************************************************************)
\* A later run has loaded the file the wizard wrote.
LoadedAfterWizard == saved /\ run > 1 /\ LoadDone

\* The displayed configuration with the defaults of the schema for the
\* fields it does not hold.
WithDefaults(v) ==
  Obj([k \in DOMAIN v.o \cup {"public", "encryptionMode"} |->
        IF k \in DOMAIN v.o THEN v.o[k]
        ELSE IF k = "public" THEN Bool(FALSE)
             ELSE Str(EncryptionMode.OPTIONAL)])

\* C10 (as amended): after the wizard wrote the configuration it displayed,
\* loading the file with no GW_ variable and no argument succeeds and
\* yields the displayed configuration completed with public: false and
\* encryptionMode: 'optional' where the answers left them out.
C10_RoundTrip ==
  LoadedAfterWizard =>
    /\ error \in {"none", "Error"}
    /\ config = WithDefaults(shown)

\* C10 as stated: the loaded configuration equals the displayed one.
C10_RoundTripEqual ==
  LoadedAfterWizard =>
    /\ error \in {"none", "Error"}
    /\ config = shown

\* C10: the file of a wizard run was loaded; the answers left public and
\* encryptionMode out and gave a name and a website that YAML reads as a
\* boolean and a number unless they are quoted.
C10_Witness ==
  /\ LoadedAfterWizard
  /\ ~Supplies(shown, "public")
  /\ ~Supplies(shown, "encryptionMode")
  /\ ValueOf(shown, "name") = Str(s_true)
  /\ ValueOf(shown, "website") = Str(<<"1", "2">>)
  /\ ValueOf(config, "name") = Str(s_true)

(***************************************************************************)
(* Properties of the schema and of the extractors.                         *)
(***************************************************************************)
\* A sequence of at least one string.
NonEmptyStrings(v) ==
  /\ v.t = "array"
  /\ Len(v.a) >= 1
  /\ \A i \in 1..Len(v.a) : v.a[i].t = "string"

\* The value is one of the three modes.
IsMode(v) ==
  /\ v.t = "string"
  /\ v.s \in {EncryptionMode.OPTIONAL, EncryptionMode.REQUIRED,
             EncryptionMode.DISABLED}

\* The shape every returned Config has.
WellFormed ==
  /\ NonEmptyStrings(ValueOf(config, "server"))
  /\ ValueOf(config, "privateKey").t = "string"
  /\ Len(ValueOf(config, "privateKey").s) >= 64
  /\ NonEmptyStrings(ValueOf(config, "relays"))
  /\ ValueOf(config, "public").t = "boolean"
  /\ (Suppliers("public") = {} => ValueOf(config, "public") = Bool(FALSE))
  /\ IsMode(ValueOf(config, "encryptionMode"))
  /\ (Suppliers("encryptionMode") = {} =>
        ValueOf(config, "encryptionMode") = Str(EncryptionMode.OPTIONAL))

HelpFlags == {Long("help"), Short("h")}
VersionFlags == {Long("version"), Short("v")}

\* One of the tokens is somewhere in the argument vector.
Appears(tokens) == \E i \in 1..Len(args) : args[i] \in tokens

\* One of the tokens is in the argument vector before any bare --.
AppearsAsFlag(tokens) ==
  \E i \in 1..Len(args) :
    /\ args[i] \in tokens
    /\ \A j \in 1..i : args[j] # DashDash

\* The process has exited with status 0 and has done nothing else: no
\* prompt, no write, no environment or file read, no merge, no validation,
\* no dependency constructed.
OnlyExited ==
  /\ pc = "exited"
  /\ exitCode = 0
  /\ error = "none"
  /\ answered = NotAnswered
  /\ field = 0
  /\ ~saved
  /\ envConfig = Undefined
  /\ yamlConfig = Undefined
  /\ cliConfig = Undefined
  /\ mergedConfig = Undefined
  /\ config = Undefined
  /\ constructed = <<>>
  /\ used = Undefined
  /\ ~started

\* The parsed arguments of main.ts ask for the usage or the version, so
\* that the exit is the only step the process can take.
ExitsFirst ==
  Truthy(Get(TopArgs, "help")) \/ Truthy(Get(TopArgs, "version"))

FlagPart ==
  IF DashDashIndex(args) = 0 THEN args
  ELSE SubSeq(args, 1, DashDashIndex(args) - 1)

AfterDashDash ==
  IF DashDashIndex(args) = 0 THEN <<>>
  ELSE SubSeq(args, DashDashIndex(args) + 1, Len(args))

\* The word at position i of the flag part is the value of the flag before
\* it: of a flag that takes a value, or true or false after a boolean flag.
IsValueOf(i, keys) ==
  /\ i > 1
  /\ FlagPart[i].k = "word"
  /\ Len(FlagPart[i].s) > 0
  /\ FlagPart[i - 1].k \in {"long", "short"}
  /\ FlagPart[i - 1].key \in keys

BooleanFlags == {"help", "version", "public", "h", "v"}

IsFlagValue(i) ==
  /\ i > 1
  /\ FlagPart[i - 1].k \in {"long", "short"}
  /\ IF FlagPart[i - 1].key \in BooleanFlags
     THEN IsValueOf(i, BooleanFlags) /\ FlagPart[i].s \in {s_true, s_false}
     ELSE IsValueOf(i, {FlagPart[i - 1].key})

\* The positions of the values of --server, and of the positional words.
ServerValueAt == {i \in 1..Len(FlagPart) : IsValueOf(i, {"server"})}

PositionalAt ==
  {i \in 1..Len(FlagPart) : FlagPart[i].k = "word" /\ ~IsFlagValue(i)}

\* The texts of the tokens at a set of positions, in the order of the
\* argument vector.
TextsAt(I) ==
  [k \in 1..Cardinality(I) |->
    Str(FlagPart[CHOOSE i \in I : Cardinality({j \in I : j < i}) = k - 1].s)]

\* The server command the argument vector gives: the values of --server,
\* then the positional tokens in order, then the tokens after --.
ServerTokens ==
  TextsAt(ServerValueAt) \o TextsAt(PositionalAt)
    \o [j \in 1..Len(AfterDashDash) |-> Str(ArgText(AfterDashDash[j]))]

\* C13: the command-line partial holds as server the values of --server
\* followed in order by the positional tokens, the positional tokens alone
\* when the flag is absent, and no server when there is neither.
C13_ServerFromTokens ==
  (LoadDone /\ cliConfig # Undefined) =>
    IF ServerTokens = <<>> THEN ~Supplies(cliConfig, "server")
    ELSE ValueOf(cliConfig, "server") = Arr(ServerTokens)

\* C13 for the command lines none of whose server tokens reads as a number.
C13_ServerFromTextTokens ==
  (LoadDone /\ cliConfig # Undefined
     /\ \A i \in 1..Len(ServerTokens) : ~IsNumber(ServerTokens[i].s)) =>
    IF ServerTokens = <<>> THEN ~Supplies(cliConfig, "server")
    ELSE ValueOf(cliConfig, "server") = Arr(ServerTokens)

\* Every prompt of the wizard has been answered and the configuration
\* displayed is the one collected.
AllAnswered ==
  /\ field = Len(PromptKeys)
  /\ answered.field = Len(PromptKeys)
  /\ shown = Obj(wizard.config)

\* C14: the file changes only in the step that follows the confirmation
\* prompt, after every field has been answered, and only when the user
\* said yes; its content is then the rendering of the displayed
\* configuration, whatever it was before. On no, and in every step before
\* the confirmation, the file stays as it is.
C14_WriteOnlyOnConfirm ==
  /\ [](saved => fs = FsFile(dump(shown)))
  /\ [][(fs' # fs \/ saved' # saved) =>
          /\ pc = "confirm"
          /\ AllAnswered
          /\ saved'
          /\ fs' = FsFile(dump(shown))
          /\ pc' = "exited"
          /\ exitCode' = 0]_vars

\* C14: the wizard has saved and exited, and the file holds the rendering
\* of the displayed configuration and no longer what it held at the start.
C14_Witness ==
  /\ saved
  /\ run = 1
  /\ pc = "exited"
  /\ exitCode = 0
  /\ fs = FsFile(dump(shown))
  /\ fs # FileOf(Required)
  /\ DOMAIN env # {}

\* The fields in schema order, serverInfo replaced by its sub-fields.
SchemaOrder ==
  SubSeq(ShapeKeys, 1, 4) \o ServerInfoKeys \o SubSeq(ShapeKeys, 6, 7)

\* The value the wizard holds for a field, undefined when it holds none.
Collected(w, key) ==
  IF key \in Range(ServerInfoKeys)
  THEN IF key \in DOMAIN w.serverInfo THEN w.serverInfo[key] ELSE Undefined
  ELSE IF key \in DOMAIN w.config THEN w.config[key] ELSE Undefined

\* The value passes the schema of the field.
PassesSchema(key, v) ==
  IF key \in Range(ServerInfoKeys) THEN v.t = "string" ELSE FieldOk(key, v)

\* The input was empty: an empty line, or no line at all.
EmptyInput(a) == a = Null \/ a = Str(<<>>)

\* The fields the wizard has left behind.
FieldsLeft ==
  {SchemaOrder[i] : i \in 1..(IF pc = "prompt" THEN field - 1
                              ELSE IF pc = "confirm" \/ shown # Undefined
                                   THEN Len(SchemaOrder) ELSE 0)}

\* One answer to a prompt: the wizard either stays at the field, changing
\* nothing it has collected, or goes on to the next field in schema order
\* (to the confirmation after the last); it goes on only with a collected
\* value that passes the schema, or with no value when the field is
\* optional and the input was empty.
AnswerStep ==
  LET key == SchemaOrder[field]
      left == field' = field + 1 \/ pc' = "confirm"
  IN /\ PromptKeys = SchemaOrder
     /\ answered'.field = field
     /\ IF left
        THEN /\ \A k \in Range(SchemaOrder) \ {key} :
                  Collected(wizard', k) = Collected(wizard, k)
             /\ IF Collected(wizard', key) # Undefined
                THEN PassesSchema(key, Collected(wizard', key))
                ELSE key \notin Required /\ EmptyInput(answered'.answer)
        ELSE /\ field' = field
             /\ pc' = "prompt"
             /\ wizard' = wizard
             /\ rejected' = rejected + 1
             /\ ~PassesSchema(key, ParsedValue(key, PromptValue(key,
                                                answered'.answer).value))

\* C15: in the wizard a field is left only with a value that passes its
\* schema or, when it is optional, on an empty input that is recorded as
\* absence; a rejected answer leaves the wizard at the same field; the
\* required fields left behind hold non-empty values; and the fields are
\* visited in schema order, one step forward at a time.
C15_PromptLoop ==
  /\ [](pc \in {"prompt", "confirm"} =>
          /\ \A key \in Required \cap FieldsLeft :
               /\ PassesSchema(key, Collected(wizard, key))
               /\ Collected(wizard, key) \notin {Str(<<>>), Arr(<<>>)}
          /\ \A key \in Range(SchemaOrder) \ FieldsLeft :
               Collected(wizard, key) = Undefined)
  /\ [][pc = "prompt" => AnswerStep]_vars

\* C15: the wizard has left server behind with the accepted sequence and
\* is still at privateKey after rejecting a key of 63 characters as often
\* as the model lets it.
C15_Witness ==
  /\ pc = "prompt"
  /\ field = 2
  /\ rejected = MaxRejected
  /\ answered = [field |-> 2, answer |-> Str(Repeat("w", 63))]
  /\ Collected(wizard, "server") = Arr(<<Str(<<"a">>), Str(<<"b">>)>>)
  /\ Collected(wizard, "privateKey") = Undefined

\* The field of the prompt answered last.
AnsweredKey == SchemaOrder[answered.field]

\* The segments of a raw input: split on commas, each trimmed, the empty
\* ones dropped.
Segments(a) == TrimAndFilter(Split(a.s, ","))

\* The last answer was a line with at least one segment, given to the
\* prompt of one of the fields.
SequenceAnswered(keys) ==
  /\ pc \in {"prompt", "confirm"}
  /\ answered.field >= 1
  /\ AnsweredKey \in keys
  /\ answered.answer.t = "string"
  /\ Segments(answered.answer) # <<>>

\* C16: an input with at least one segment given for server, relays or
\* allowedPublicKeys is accepted, and the wizard holds its segments as the
\* sequence of that field.
C16_SequencesSplit ==
  SequenceAnswered(SequenceFields) =>
    /\ AnsweredKey \in FieldsLeft
    /\ Collected(wizard, AnsweredKey) = Arr(Segments(answered.answer))

\* C16 of server and relays alone.
C16_RequiredSequencesSplit ==
  SequenceAnswered({"server", "relays"}) =>
    /\ AnsweredKey \in FieldsLeft
    /\ Collected(wizard, AnsweredKey) = Arr(Segments(answered.answer))

\* The variable and the flag of each field and sub-field.
VariableOf ==
  [server |-> "GW_SERVER", privateKey |-> "GW_PRIVATE_KEY",
   relays |-> "GW_RELAYS", public |-> "GW_PUBLIC",
   name |-> "GW_SERVER_INFO_NAME", picture |-> "GW_SERVER_INFO_PICTURE",
   website |-> "GW_SERVER_INFO_WEBSITE",
   allowedPublicKeys |-> "GW_ALLOWED_PUBLIC_KEYS",
   encryptionMode |-> "GW_ENCRYPTION_MODE"]

FlagOf ==
  [server |-> "server", privateKey |-> "private-key", relays |-> "relays",
   public |-> "public", name |-> "server-info-name",
   picture |-> "server-info-picture", website |-> "server-info-website",
   allowedPublicKeys |-> "allowed-public-keys",
   encryptionMode |-> "encryption-mode"]

\* The environment sets the variable of the field to a non-empty value.
InEnvironment(key) ==
  VariableOf[key] \in DOMAIN env /\ env[VariableOf[key]] # <<>>

\* The file is a mapping that holds the key (for a sub-field: whose
\* serverInfo is a mapping that holds it).
InFile(key) ==
  /\ fs.kind = "file"
  /\ fs.text.y = "map"
  /\ IF key \in Range(ServerInfoKeys)
     THEN /\ "serverInfo" \in DOMAIN fs.text.m
          /\ fs.text.m["serverInfo"].y = "map"
          /\ key \in DOMAIN fs.text.m["serverInfo"].m
     ELSE key \in DOMAIN fs.text.m

\* The argument vector holds the flag of the field, or, for server, a
\* positional argument.
OnCommandLine(key) ==
  \/ \E i \in 1..Len(FlagPart) :
       /\ FlagPart[i].k \in {"long", "longeq"}
       /\ FlagPart[i].key = FlagOf[key]
  \/ key = "server" /\ (PositionalAt # {} \/ AfterDashDash # <<>>)

\* Every source that gives serverInfo gives a record (and not null or a
\* scalar, as a file may).
ServerInfoRecords ==
  \A i \in Suppliers("serverInfo") :
    ValueOf(Partials[i], "serverInfo").t = "object"

\* C17: a partial holds a field or sub-field only when its source gave it:
\* the environment's only for a variable that is set and not empty, the
\* file's only for a key of the file, the command line's only for a flag
\* (for server also a positional argument) of the argument vector; and a
\* field no higher source gave keeps, in the merged configuration, the
\* value of the highest source that gave it (a sub-field of serverInfo
\* when every serverInfo given is a record).
C17_OnlySuppliedFields ==
  LoadDone =>
    \A key \in TopFields \cup Range(ServerInfoKeys) :
      /\ Supplies(envConfig, key) => InEnvironment(key)
      /\ Supplies(yamlConfig, key) => InFile(key)
      /\ Supplies(cliConfig, key) => OnCommandLine(key)
      /\ (mergedConfig # Undefined /\ Suppliers(key) # {}
            /\ (key \in Range(ServerInfoKeys) => ServerInfoRecords)) =>
           ValueOf(mergedConfig, key) = ValueOf(Highest(key), key)

\* C17: the command line gives privateKey alone; public, encryptionMode,
\* relays and allowedPublicKeys come from the environment and are resolved
\* to the environment's values.
C17_Witness ==
  /\ Succeeded
  /\ Suppliers("privateKey") = {1, 3}
  /\ \A key \in {"public", "encryptionMode", "relays", "allowedPublicKeys"} :
       /\ Suppliers(key) = {3}
       /\ ~OnCommandLine(key)
       /\ ValueOf(config, key) = ValueOf(envConfig, key)
  /\ ValueOf(config, "public") = Bool(TRUE)
  /\ ValueOf(config, "encryptionMode") = Str(EncryptionMode.REQUIRED)

\* The position of the first whitespace character of s, Len(s) + 1 when
\* it has none.
WordEnd(s) ==
  IF \E i \in 1..Len(s) : s[i] \in Whitespace
  THEN CHOOSE i \in 1..Len(s) :
         s[i] \in Whitespace /\ \A j \in 1..(i - 1) : s[j] \notin Whitespace
  ELSE Len(s) + 1

RECURSIVE WhitespaceTokens(_)
\* The whitespace-separated tokens of s, in order.
WhitespaceTokens(s) ==
  IF TrimStart(s) = <<>> THEN <<>>
  ELSE <<Str(SubSeq(TrimStart(s), 1, WordEnd(TrimStart(s)) - 1))>>
         \o WhitespaceTokens(SubSeq(TrimStart(s), WordEnd(TrimStart(s)),
                                    Len(TrimStart(s))))

\* The tokens of s are separated by one space each and nothing else is
\* whitespace in s.
SingleSpaced(s) ==
  /\ \A i \in 1..Len(s) : s[i] # "\t"
  /\ Len(s) > 0 => (s[1] # " " /\ s[Len(s)] # " ")
  /\ \A i \in 1..(Len(s) - 1) : ~(s[i] = " " /\ s[i + 1] = " ")

\* C18: for every non-empty GW_SERVER the environment's partial holds as
\* server the whitespace-separated tokens of the value, in order.
C18_ServerSplitOnWhitespace ==
  (envConfig # Undefined /\ InEnvironment("server")) =>
    ValueOf(envConfig, "server") = Arr(WhitespaceTokens(env["GW_SERVER"]))

\* C18 for the values whose tokens are separated by one space each.
C18_ServerSplitOnSingleSpaces ==
  (envConfig # Undefined /\ InEnvironment("server")
     /\ SingleSpaced(env["GW_SERVER"])) =>
    ValueOf(envConfig, "server") = Arr(WhitespaceTokens(env["GW_SERVER"]))

\* C19: the environment's partial holds public: true when GW_PUBLIC is
\* exactly 'true', public: false for every other non-empty value, and no
\* public when the variable is not set (or set to the empty string).
C19_PublicOnlyForTrue ==
  envConfig # Undefined =>
    IF InEnvironment("public")
    THEN ValueOf(envConfig, "public")
           = Bool(env["GW_PUBLIC"] = <<"t", "r", "u", "e">>)
    ELSE ~Supplies(envConfig, "public")

\* C19: a configuration resolved under GW_PUBLIC=TRUE, which the partial
\* and, no other source giving public, the Config hold as false.
C19_Witness ==
  /\ Succeeded
  /\ InEnvironment("public")
  /\ env["GW_PUBLIC"] = <<"T", "R", "U", "E">>
  /\ ValueOf(envConfig, "public") = Bool(FALSE)
  /\ Suppliers("public") = {3}
  /\ ValueOf(config, "public") = Bool(FALSE)

\* A value that is no object, or an object whose serverInfo, when present,
\* is an object with at least one of name, picture and website.
ServerInfoNotEmpty(v) ==
  (v.t = "object" /\ "serverInfo" \in DOMAIN v.o) =>
    /\ v.o["serverInfo"].t = "object"
    /\ DOMAIN v.o["serverInfo"].o \cap Range(ServerInfoKeys) # {}

\* The partials of the environment, of the command line and of the wizard
\* (the wizard's while it is being filled and as it is displayed).
ExtractorsNotEmpty ==
  /\ ServerInfoNotEmpty(envConfig)
  /\ ServerInfoNotEmpty(cliConfig)
  /\ ServerInfoNotEmpty(Obj(wizard.config))
  /\ ServerInfoNotEmpty(shown)

\* C20: the Config, and the partials of the environment, of the command
\* line and of the wizard, hold serverInfo only with at least one of name,
\* picture and website; a serverInfo without sub-field is in none of them.
C20_ServerInfoNeverEmpty ==
  /\ ServerInfoNotEmpty(config)
  /\ ExtractorsNotEmpty

\* C20, for the three partials alone: the environment's, the command
\* line's and the wizard's never hold a serverInfo without sub-field.
C20_PartialsNeverEmpty == ExtractorsNotEmpty

\* init is the first argument, or --init is a flag of the argument vector.
InitAsked ==
  \/ (Len(args) >= 1 /\ args[1] = Word(<<"i", "n", "i", "t">>))
  \/ AppearsAsFlag({Long("init")})

\* A run of the wizard: init is asked for, the usage and the version are
\* not.
InitRun == InitAsked /\ ~AppearsAsFlag(HelpFlags \cup VersionFlags)

\* loadConfig has not been entered and nothing of the gateway exists.
NothingLoaded ==
  /\ envConfig = Undefined
  /\ yamlConfig = Undefined
  /\ cliConfig = Undefined
  /\ mergedConfig = Undefined
  /\ config = Undefined
  /\ constructed = <<>>
  /\ used = Undefined
  /\ ~started
  /\ ~listening

PublicSetFalse ==
  \E i \in 1..Len(FlagPart) :
    \/ FlagPart[i] = LongEq("public", <<"f", "a", "l", "s", "e">>)
    \/ /\ FlagPart[i] = Long("public")
       /\ i < Len(FlagPart)
       /\ FlagPart[i + 1] = Word(<<"f", "a", "l", "s", "e">>)

\* The file gives public as true, or gives no public while the environment
\* gives it as true.
PublicFromBelow ==
  \/ ValueOf(yamlConfig, "public") = Bool(TRUE)
  \/ /\ ~Supplies(yamlConfig, "public")
     /\ ValueOf(envConfig, "public") = Bool(TRUE)

\* C24: the partial of the command line holds public as true or not at
\* all, for --public=false as for no flag; and when the file gives public
\* as true, or gives none and the environment gives true, the Config holds
\* public as true whatever the command line is.
C24_CliOnlyRaisesPublic ==
  LoadDone =>
    /\ ValueOf(cliConfig, "public") \in {Undefined, Bool(TRUE)}
    /\ (Succeeded /\ PublicFromBelow) => ValueOf(config, "public") = Bool(TRUE)

\* C24: a configuration resolved with --public=false or --public false on
\* the command line: the command line's partial has no public, and the
\* Config holds the true of the file.
C24_Witness ==
  /\ Succeeded
  /\ PublicSetFalse
  /\ ~Supplies(cliConfig, "public")
  /\ ValueOf(yamlConfig, "public") = Bool(TRUE)
  /\ ValueOf(envConfig, "public") = Bool(FALSE)
  /\ ValueOf(config, "public") = Bool(TRUE)

\* The step is the receipt of SIGINT or SIGTERM.
SignalReceived == signal = "none" /\ signal' \in Signals

\* C25: the listeners are registered in the step that ends gateway.start()
\* and in no other. A signal received while they are registered makes the
\* process call gateway.stop() and exit with status 0, whether stop()
\* rejects or not; a signal received before, while loadConfig or
\* gateway.start() is awaited, is not handled by shutdown: gateway.stop()
\* is not called and Deno.exit is not reached.
C25_ShutdownAfterStart ==
  /\ [][(~listening /\ listening') =>
          pc = "starting" /\ started /\ pc' = "running"]_vars
  /\ [][SignalReceived =>
          IF listening
          THEN /\ pc = "running"
               /\ stopCalled'
               /\ pc' = "exited"
               /\ exitCode' = 0
               /\ error' = "none"
          ELSE /\ pc \in {"readFile", "starting"}
               /\ ~stopCalled'
               /\ pc' = "killed"
               /\ exitCode' = -1]_vars
  /\ []((pc = "exited" /\ stopCalled) => (exitCode = 0 /\ signal \in Signals))

\* C25: the process has exited with status 0 on SIGTERM although
\* gateway.stop() rejected.
C25_Witness ==
  /\ pc = "exited"
  /\ signal = "SIGTERM"
  /\ stopCalled
  /\ stopThrew
  /\ exitCode = 0
  /\ error = "none"

\* C25: SIGINT has ended the process while gateway.start() was awaited;
\* gateway.stop() has not been called.
C25_WitnessDuringStart ==
  /\ pc = "killed"
  /\ signal = "SIGINT"
  /\ started
  /\ ~listening
  /\ ~stopCalled

(***************************************************************************)
(* Properties of the install script.                                       *)
(***************************************************************************)
\* gateway-cli was found on the PATH, the latest release is known, and main
\* is past its comparison of the two versions and the if that follows it.
Decided ==
  /\ INSTALLED_PATH # "none"
  /\ VERSION # <<>>
  /\ step \notin {"compare", "decide"}

\* What compare_versions returns for the release and the installed version.
Comparison == compare_versions(VERSION, INSTALLED_VERSION)

\* main has called install_binary.
InstallBinaryCalled ==
  downloaded \/ step \in {"install_binary", "download"}

\* The script has ended without a download, and the files are as they were.
NothingInstalled ==
  /\ step = "exited"
  /\ ~downloaded
  /\ binary = previous
  /\ backup = NoFile
  /\ temp = NoFile

\* C22: with gateway-cli installed, a release equal to the installed
\* version and no --force make the script print that gateway-cli is already
\* up to date and exit with status 0, nothing downloaded and the binary
\* untouched; an installed version newer than the release does the same
\* with its own message; with --force, or with a newer release, main calls
\* install_binary.
C22_UpToDateExitsZero ==
  Decided =>
    IF Comparison = 2 /\ ~FORCE_INSTALL
    THEN /\ NothingInstalled
         /\ status = 0
         /\ "already up to date" \in printed
    ELSE IF Comparison = 1 /\ ~FORCE_INSTALL
         THEN /\ NothingInstalled
              /\ status = 0
              /\ "installed is newer" \in printed
         ELSE InstallBinaryCalled

\* C22, what the script does: after a comparison that returns 1 or 2 the
\* script has ended with that status, with or without --force, nothing
\* printed about it, nothing downloaded and the binary untouched; after a
\* comparison that returns 0 main calls install_binary.
C22_ComparisonEndsScript ==
  Decided =>
    IF Comparison # 0
    THEN /\ NothingInstalled
         /\ status = Comparison
         /\ printed \cap {"already up to date", "installed is newer",
                          "force installing"} = {}
    ELSE InstallBinaryCalled

\* install_binary of an upgrade has ended: it has returned to main, or the
\* script has exited in it.
UpgradeEnded ==
  /\ previous.file
  /\ downloaded
  /\ step \in {"final", "exited"}

\* The step of an upgrade moves a downloaded file to the install path.
MovedToInstallPath ==
  /\ previous.file
  /\ binary' # binary
  /\ binary'.file
  /\ binary'.origin = "release"

\* When install_binary of an upgrade has ended, the install path holds the
\* downloaded binary of the release, whose --version succeeded there, and
\* the backup is removed; or it holds the previous binary and the script
\* has exited with status 1. Until the verification has succeeded the
\* previous binary is at the install path or at the backup path.
PreviousBinaryKept ==
  /\ [](UpgradeEnded =>
          IF "upgraded" \in printed
          THEN /\ binary.origin = "release"
               /\ binary.version = VERSION
               /\ RunsVersion(binary, "installed")
               /\ backup = NoFile
          ELSE /\ binary = previous
               /\ backup = NoFile
               /\ step = "exited"
               /\ status = 1)
  /\ []((previous.file /\ binary # previous /\ backup # previous) =>
          /\ step \in {"link", "final", "exited"}
          /\ RunsVersion(binary, "installed"))

\* C23, Linux and macOS: in an upgrade the previous binary is not lost, as
\* PreviousBinaryKept says, on every system; and on Linux and macOS a
\* download whose --version fails at the temporary path is never moved to
\* the install path.
C23_PreviousBinaryKept ==
  /\ PreviousBinaryKept
  /\ [][(MovedToInstallPath /\ OS # "windows") =>
          RunsVersion(binary', "temp")]_vars

\* C23, every system: in an upgrade the previous binary is not lost, and a
\* download whose --version fails at the temporary path is moved to the
\* install path on no system.
C23_FailedDownloadNeverMoved ==
  /\ PreviousBinaryKept
  /\ [][MovedToInstallPath => RunsVersion(binary', "temp")]_vars

\* C23: an upgrade on Linux has ended with the previous binary moved back
\* from the backup: the download passed its test at the temporary path and
\* failed at the install path.
C23_Witness ==
  /\ UpgradeEnded
  /\ OS = "linux"
  /\ step = "exited"
  /\ status = 1
  /\ "Upgrade failed, previous version restored" \in printed
  /\ binary = previous
  /\ backup = NoFile

====
